---- MODULE Spec2Model ----
(***************************************************************************)
(* A model of etl_io.py: the IPEDS Access-database handler (IPEDSHandler), *)
(* the O*NET flat-file handler (ONETHandler) and the crosswalk translator  *)
(* (Rosetta).                                                              *)
(*                                                                         *)
(* Python values are tagged records ([t |-> "None"], [t |-> "df", ...]).   *)
(* A call's outcome is a record [kind, val, msgs, nq]: kind is "ok" (val   *)
(* is the returned value) or "raise" (val names the exception that leaves  *)
(* the call); msgs is what the call printed and nq the number of queries   *)
(* it sent to the connection.  Strings whose length or character content   *)
(* matters (classification codes, directory names) are sequences of        *)
(* one-character strings.                                                  *)
(***************************************************************************)
EXTENDS Integers, Sequences, FiniteSets, TLC

VARIABLES
    db,            \* the Access database behind the connection (environment)
    conn,          \* IPEDSHandler.conn: "none", "open" or "closed"
    metadata,      \* IPEDSHandler.metadata
    varnames,      \* IPEDSHandler.varnames
    stone,         \* Rosetta.stone
    fs,            \* entries of the ONETHandler.target directory
    target_exists, \* whether ONETHandler.target exists on disk
    feed,          \* the release the remote feed advertises (tenths)
    current,       \* ONETHandler.current
    version,       \* ONETHandler.version (tenths)
    current_path,  \* ONETHandler.current_path
    onet,          \* whether an ONETHandler instance exists: "none" or "live"
    call,          \* the last call made by the caller: [op, args]
    ret            \* its outcome

vars == <<db, conn, metadata, varnames, stone, fs, target_exists, feed,
          current, version, current_path, onet, call, ret>>

ipedsVars == <<db, conn, metadata, varnames>>
onetVars == <<fs, target_exists, feed, current, version, current_path, onet>>

(* Python values and call outcomes *)

None == [t |-> "None"]
EmptyTuple == [t |-> "tuple"]
PyInt(n) == [t |-> "int", v |-> n]
PyList(s) == [t |-> "list", v |-> s]
PyDict(d) == [t |-> "dict", d |-> d]
DF(cols, rows) == [t |-> "df", cols |-> cols, rows |-> rows]

Ok(v, msgs, nq) == [kind |-> "ok", val |-> v, msgs |-> msgs, nq |-> nq]
Raise(e, msgs, nq) == [kind |-> "raise", val |-> e, msgs |-> msgs, nq |-> nq]

IsNone(v) == v.t = "None"

Range(s) == {s[i] : i \in 1..Len(s)}

RECURSIVE SumSeq(_)
SumSeq(s) == IF s = <<>> THEN 0 ELSE Head(s) + SumSeq(Tail(s))

RECURSIVE Flatten(_)
Flatten(ss) == IF ss = <<>> THEN <<>> ELSE Head(ss) \o Flatten(Tail(ss))

\* the characters that occur in the model's strings, in code-point order
Ascii == <<" ", ",", ".", "0", "1", "2", "3", "4", "5", "6", "7", "8", "9",
           "A", "C", "K", "L", "N", "X", "Y", "_",
           "b", "d", "e", "i", "p", "t", "x", "z">>

Ord(c) == CHOOSE i \in 1..Len(Ascii) : Ascii[i] = c

\* Python's < on str
RECURSIVE StrLess(_, _)
StrLess(a, b) ==
    IF b = <<>> THEN FALSE
    ELSE IF a = <<>> THEN TRUE
    ELSE IF Head(a) = Head(b) THEN StrLess(Tail(a), Tail(b))
    ELSE Ord(Head(a)) < Ord(Head(b))

IntLess(a, b) == a < b

(* The database: relations as sequences of rows, a row a function from     *)
(* column names to values.                                                 *)

AL == <<"A", "L">>
NY == <<"N", "Y">>

\* institutions: UNITID is the key of HD2019
HD2019 == <<
    [UNITID |-> 1, FIPS |-> 1, STABBR |-> AL, COUNTYCD |-> 11, COUNTYNM |-> <<"X">>, ZIP |-> 100],
    [UNITID |-> 2, FIPS |-> 1, STABBR |-> AL, COUNTYCD |-> 12, COUNTYNM |-> <<"Y">>, ZIP |-> 101],
    [UNITID |-> 3, FIPS |-> 2, STABBR |-> NY, COUNTYCD |-> 21, COUNTYNM |-> <<"K">>, ZIP |-> 200] >>

Cip99 == <<"9", "9">>
Cip11 == <<"1", "1">>
Cip1101 == <<"1", "1", ".", "0", "1">>
Cip110101 == <<"1", "1", ".", "0", "1", "0", "1">>
Cip010101 == <<"0", "1", ".", "0", "1", "0", "1">>

AwardRow(u, c, m, lvl, men, women) ==
    [UNITID |-> u, CIPCODE |-> c, MAJORNUM |-> m, AWLEVEL |-> lvl,
     CTOTALT |-> men + women, CTOTALM |-> men, CTOTALW |-> women]

\* completions: one row per (UNITID, CIPCODE, MAJORNUM, AWLEVEL)
MaxAwardRows == 2

AwardPool == <<
    AwardRow(1, Cip99, 1, 5, 2, 1),
    AwardRow(1, Cip110101, 1, 5, 1, 1),
    AwardRow(1, Cip110101, 1, 7, 1, 0),
    AwardRow(2, Cip1101, 1, 5, 0, 1),
    AwardRow(3, Cip11, 1, 5, 1, 0),
    AwardRow(3, Cip010101, 2, 5, 0, 2) >>

SubSeqBy(s, keep) ==
    LET F[i \in 0..Len(s)] ==
            IF i = 0 THEN <<>>
            ELSE IF i \in keep THEN Append(F[i - 1], s[i]) ELSE F[i - 1]
    IN F[Len(s)]

ValueSetsFull == <<
    [varName |-> "CIPCODE", Codevalue |-> Cip99, valueLabel |-> <<"A", "L", "L">>],
    [varName |-> "CIPCODE", Codevalue |-> Cip110101, valueLabel |-> <<"C", "_", "X">>] >>

VarTableFull == <<
    [TableName |-> "C2019_A", varName |-> "UNITID", varTitle |-> "Unique identification number"],
    [TableName |-> "C2019_A", varName |-> "CIPCODE", varTitle |-> "CIP Code"],
    [TableName |-> "C2019_A", varName |-> "CTOTALT", varTitle |-> "Grand total"] >>

AwardTables ==
    { SubSeqBy(AwardPool, keep) :
        keep \in {k \in SUBSET (1..Len(AwardPool)) : Cardinality(k) <= MaxAwardRows} }

\* a database either lacks the two dictionary relations or carries them
Databases ==
    { [HD2019 |-> HD2019, C2019_A |-> t] : t \in AwardTables }
    \cup
    { [HD2019 |-> HD2019, C2019_A |-> t,
       valuesets19 |-> ValueSetsFull, vartable19 |-> VarTableFull] : t \in AwardTables }

\* no database file behind the handler yet
NoDatabase == [x \in {} |-> <<>>]

(* pd.read_sql_query: a query names a table, the projected columns and a   *)
(* WHERE clause, a sequence of conditions [col, vals] meaning              *)
(* "col IN (vals)" joined by AND; <<>> is no WHERE clause.                 *)

Star == <<"*">>

Cond(col, vals) == [col |-> col, vals |-> vals]

Schema(table) ==
    CASE table = "HD2019" -> {"UNITID", "FIPS", "STABBR", "COUNTYCD", "COUNTYNM", "ZIP"}
      [] table = "C2019_A" -> {"UNITID", "CIPCODE", "MAJORNUM", "AWLEVEL",
                               "CTOTALT", "CTOTALM", "CTOTALW"}
      [] table = "valuesets19" -> {"varName", "Codevalue", "valueLabel"}
      [] table = "vartable19" -> {"TableName", "varName", "varTitle"}
      [] OTHER -> {}

SchemaSeq(table) ==
    CASE table = "HD2019" -> <<"UNITID", "FIPS", "STABBR", "COUNTYCD", "COUNTYNM", "ZIP">>
      [] table = "C2019_A" -> <<"UNITID", "CIPCODE", "MAJORNUM", "AWLEVEL",
                                "CTOTALT", "CTOTALM", "CTOTALW">>
      [] table = "valuesets19" -> <<"varName", "Codevalue", "valueLabel">>
      [] table = "vartable19" -> <<"TableName", "varName", "varTitle">>
      [] OTHER -> <<>>

Project(row, cols) == [c \in Range(cols) |-> row[c]]

\* the driver's verdict on a query: is it executable against d over c
QueryFails(d, c, table, variables, where) ==
    \/ c # "open"
    \/ table \notin DOMAIN d
    \/ variables = <<>>
    \/ variables # Star /\ \E i \in 1..Len(variables) : variables[i] \notin Schema(table)
    \/ \E i \in 1..Len(where) :
          where[i].col \notin Schema(table) \/ where[i].vals = <<>>

read_sql_query(d, c, table, variables, where) ==
    IF QueryFails(d, c, table, variables, where)
    THEN Raise("DatabaseError", <<>>, 1)
    ELSE LET cols == IF variables = Star THEN SchemaSeq(table) ELSE variables
             Sat(row) == \A i \in 1..Len(where) :
                            row[where[i].col] \in Range(where[i].vals)
             hit == SelectSeq(d[table], Sat)
         IN Ok(DF(cols, [i \in 1..Len(hit) |-> Project(hit[i], cols)]), <<>>, 1)

(* IPEDSHandler: metadata, connection, clean and select *)

\* later entries of a key override earlier ones, as in a dict built in a loop
LastAt(rows, idx) ==
    rows[CHOOSE i \in idx : \A j \in idx : j <= i]

get_varnames(d, c) ==
    LET q == read_sql_query(d, c, "vartable19", <<"TableName", "varName", "varTitle">>, <<>>)
    IN IF q.kind = "raise" THEN Ok(None, <<"error">>, 1)
       ELSE LET values == q.val.rows
                tabs == {values[i].TableName : i \in 1..Len(values)}
                VarsOf(tab) == {values[i].varName :
                                   i \in {j \in 1..Len(values) : values[j].TableName = tab}}
                Title(tab, v) ==
                    LastAt(values, {i \in 1..Len(values) :
                               values[i].TableName = tab /\ values[i].varName = v}).varTitle
            IN Ok(PyDict([tab \in tabs |-> [v \in VarsOf(tab) |-> Title(tab, v)]]), <<>>, 1)

get_metadata(d, c) ==
    LET q == read_sql_query(d, c, "valuesets19", Star, <<>>)
    IN IF q.kind = "raise" THEN Ok(None, <<"error">>, 1)
       ELSE LET values == q.val.rows
                vs == {values[i].varName : i \in 1..Len(values)}
                CodesOf(var) == {values[i].Codevalue :
                                    i \in {j \in 1..Len(values) : values[j].varName = var}}
                Label(var, code) ==
                    LastAt(values, {i \in 1..Len(values) :
                               values[i].varName = var /\ values[i].Codevalue = code}).valueLabel
            IN Ok(PyDict([var \in vs |-> [code \in CodesOf(var) |-> Label(var, code)]]), <<>>, 1)

\* df.rename(columns=mapper): columns absent from the mapper keep their name
RenameColumns(df, mapper) ==
    LET New(c) == IF c \in DOMAIN mapper THEN mapper[c] ELSE c
        Old(n) == CHOOSE c \in Range(df.cols) : New(c) = n
        newcols == [i \in 1..Len(df.cols) |-> New(df.cols[i])]
    IN DF(newcols, [i \in 1..Len(df.rows) |->
                       [n \in Range(newcols) |-> df.rows[i][Old(n)]]])

\* df.replace with the dictionaries of all variables merged: the column is
\* not looked at
ReplaceAnyColumn(df, meta) ==
    LET Holders(v) == {k \in DOMAIN meta : v \in DOMAIN meta[k]}
        New(v) == IF Holders(v) = {} THEN v ELSE meta[CHOOSE k \in Holders(v) : TRUE][v]
    IN DF(df.cols, [i \in 1..Len(df.rows) |->
                       [c \in Range(df.cols) |-> New(df.rows[i][c])]])

\* df.replace(nested dict): in column c, a value that is a key of meta[c]
\* becomes its label
ReplaceValues(df, meta) ==
    LET New(c, v) == IF c \in DOMAIN meta
                     THEN IF v \in DOMAIN meta[c] THEN meta[c][v] ELSE v
                     ELSE v
    IN DF(df.cols, [i \in 1..Len(df.rows) |->
                       [c \in Range(df.cols) |-> New(c, df.rows[i][c])]])

\* replaceNoneRaises: whether the installed pandas rejects df.replace(None)
clean(md, vn, df, name, replace, rename, replaceNoneRaises) ==
    LET replaced ==
            IF ~replace THEN Ok(df, <<>>, 0)
            ELSE IF IsNone(md)
                 THEN IF replaceNoneRaises THEN Raise("TypeError", <<>>, 0)
                      ELSE Ok(df, <<>>, 0)
                 ELSE Ok(ReplaceValues(df, md.d), <<>>, 0)
    IN IF replaced.kind = "raise" THEN replaced
       ELSE IF ~rename THEN replaced
       ELSE IF IsNone(vn) THEN Raise("TypeError", <<>>, 0)
       ELSE IF name \notin DOMAIN vn.d THEN Raise("KeyError", <<>>, 0)
       ELSE Ok(RenameColumns(replaced.val, vn.d[name]), <<>>, 0)

\* a raw query text: the relation it reads, whether its FROM keyword is in
\* upper case, whether a ";" directly follows the relation name, and whether
\* the driver accepts it
RawSql(table, upperFrom, semicolon, valid) ==
    [t |-> "sql", table |-> table, upperFrom |-> upperFrom,
     semicolon |-> semicolon, valid |-> valid]

NoSql == [t |-> "empty"]

\* sql.split('FROM ')[1].split()[0]
ParseFrom(sql) ==
    IF ~sql.upperFrom THEN Raise("IndexError", <<>>, 0)
    ELSE Ok(IF sql.semicolon THEN sql.table \o ";" ELSE sql.table, <<>>, 0)

\* the body of select's try block
select_body(d, c, md, vn, name, variables, where, sql, replace, rename, rnr) ==
    IF name = "" /\ sql = NoSql THEN Ok(None, <<>>, 0)
    ELSE IF sql = NoSql
    THEN LET q == read_sql_query(d, c, name, variables, where)
         IN IF q.kind = "raise" THEN q
            ELSE IF replace \/ rename
                 THEN LET k == clean(md, vn, q.val, name, replace, rename, rnr)
                      IN [k EXCEPT !.nq = 1]
                 ELSE q
    ELSE LET q == IF sql.valid
                  THEN read_sql_query(d, c, sql.table, Star, <<>>)
                  ELSE Raise("DatabaseError", <<>>, 1)
         IN IF q.kind = "raise" THEN q
            ELSE LET n == ParseFrom(sql)
                 IN IF n.kind = "raise" THEN [n EXCEPT !.nq = 1]
                    ELSE IF replace \/ rename
                         THEN LET k == clean(md, vn, q.val, n.val, replace, rename, rnr)
                              IN [k EXCEPT !.nq = 1]
                         ELSE q

\* select with the try block removed
select_unguarded(d, c, md, vn, name, variables, where, sql, replace, rename, rnr) ==
    select_body(d, c, md, vn, name, variables, where, sql, replace, rename, rnr)

\* except Exception as e: print(e); the call then ends without a return
select_except(b) ==
    IF b.kind = "raise" THEN Ok(None, <<"error">>, b.nq) ELSE b

\* try: ... except Exception as e: print(e)
select(d, c, md, vn, name, variables, where, sql, replace, rename, rnr) ==
    select_except(select_body(d, c, md, vn, name, variables, where, sql, replace,
                              rename, rnr))

\* select as the aggregation methods call it: name, variables and where only
select3(d, c, md, vn, name, variables, where) ==
    select(d, c, md, vn, name, variables, where, NoSql, FALSE, FALSE, FALSE)

(* IPEDSHandler.get_unitid *)

Absent(x) == x.t = "None"

\* 'COL IN (v1,v2)' for a sequence, 'COL IN (v)' for a scalar
InClause(col, x) ==
    IF Absent(x) THEN <<>>
    ELSE <<Cond(col, IF x.t = "list" THEN x.v ELSE <<x.v>>)>>

HDColumns == <<"UNITID", "FIPS", "STABBR", "COUNTYCD", "COUNTYNM", "ZIP">>

CleanGeographyRow(r) ==
    [r EXCEPT !.FIPS = r.STABBR,
              !.COUNTYCD = r.COUNTYNM \o <<",", " ">> \o r.STABBR]

\* lines 272-274: with clean_geography the columns of utd are rewritten;
\* utd is the outcome of the select
get_unitid_clean(utd, clean_geography) ==
    IF ~clean_geography THEN utd
    ELSE IF IsNone(utd.val) THEN Raise("TypeError", utd.msgs, utd.nq)
    ELSE Ok(DF(utd.val.cols,
               [i \in 1..Len(utd.val.rows) |-> CleanGeographyRow(utd.val.rows[i])]),
            utd.msgs, utd.nq)

get_unitid_query(d, c, md, vn, state_fips, county_fips, zipcode, clean_geography) ==
    get_unitid_clean(select3(d, c, md, vn, "HD2019", HDColumns,
                             InClause("FIPS", state_fips)
                             \o InClause("COUNTYCD", county_fips)
                             \o InClause("ZIP", zipcode)),
                     clean_geography)

\* get_unitid without the early return of lines 242-243
get_unitid_noguard(d, c, md, vn, state_fips, county_fips, zipcode, clean_geography) ==
    get_unitid_query(d, c, md, vn, state_fips, county_fips, zipcode, clean_geography)

get_unitid(d, c, md, vn, state_fips, county_fips, zipcode, clean_geography) ==
    IF Absent(state_fips) /\ Absent(county_fips) /\ Absent(zipcode)
    THEN Ok(EmptyTuple, <<>>, 0)
    ELSE get_unitid_query(d, c, md, vn, state_fips, county_fips, zipcode, clean_geography)

(* IPEDSHandler.school_query *)

PyStr(s) == [t |-> "str", v |-> s]
PyFloat(ip, fr) == [t |-> "float", ip |-> ip, fr |-> fr]

IsInt(x, n) == x.t = "int" /\ x.v = n
IsStr(x, s) == x.t = "str" /\ x.v = s

DigitChars == <<"0", "1", "2", "3", "4", "5", "6", "7", "8", "9">>

IsDigit(c) == c \in Range(DigitChars)

DigitVal(c) == (CHOOSE i \in 1..10 : DigitChars[i] = c) - 1

\* str(n) for n >= 0
RECURSIVE Digits(_)
Digits(n) == IF n < 10 THEN <<DigitChars[n + 1]>>
             ELSE Append(Digits(n \div 10), DigitChars[(n % 10) + 1])

\* str(c): a float prints its integer part, a dot and its fractional digits
Str(c) ==
    CASE c.t = "int" -> Digits(c.v)
      [] c.t = "float" -> Digits(c.ip) \o <<".">> \o c.fr
      [] c.t = "str" -> c.v

\* s.split('.')
RECURSIVE SplitDot(_)
SplitDot(s) ==
    IF \A i \in 1..Len(s) : s[i] # "."
    THEN <<s>>
    ELSE LET i == CHOOSE k \in 1..Len(s) :
                     s[k] = "." /\ \A j \in 1..(k - 1) : s[j] # "."
         IN <<SubSeq(s, 1, i - 1)>> \o SplitDot(SubSeq(s, i + 1, Len(s)))

IntParses(s) == s # <<>> /\ \A i \in 1..Len(s) : IsDigit(s[i])

\* int(s) for a string of decimal digits
RECURSIVE ParseInt(_)
ParseInt(s) == IF s = <<>> THEN 0
               ELSE 10 * ParseInt(SubSeq(s, 1, Len(s) - 1)) + DigitVal(s[Len(s)])

\* '{:d}'.format(n): no padding
FormatUnpadded(n) == Digits(n)

\* '{:>02d}'.format(n)
Format02d(n) == LET ds == Digits(n) IN IF Len(ds) < 2 THEN <<"0">> \o ds ELSE ds

\* lines 376-381: front + back
normalize_cipcode(c) ==
    LET parts == SplitDot(Str(c))
    IN IF ~IntParses(parts[1]) THEN Raise("ValueError", <<>>, 0)
       ELSE Ok(Format02d(ParseInt(parts[1]))
               \o (IF Len(parts) >= 2 THEN <<".">> \o parts[2] ELSE <<>>), <<>>, 0)

Variables(how) ==
    CASE how = "total" -> <<"CTOTALT">>
      [] how = "race" -> <<"CAIANT", "CASIAT", "CBKAAT", "CHISPT", "CNHPIT", "CUNKNT",
                           "C2MORT", "CWHITT">>
      [] how = "sex" -> <<"CTOTALM", "CTOTALW">>
      [] how = "race_sex" -> <<"CAIANM", "CASIAM", "CBKAAM", "CHISPM", "CNHPIM", "CUNKNM",
                               "C2MORM", "CWHITM", "CAIANF", "CASIAF", "CBKAAF", "CHISPF",
                               "CNHPIF", "CUNKNF", "C2MORF", "CWHITF">>

ValidHow == {"total", "race", "sex", "race_sex"}

\* a join that ignores the key: every left row with every right row
merge_cross(left, right, key) ==
    LET rcols == SelectSeq(right.cols, LAMBDA c : c # key)
        cols == left.cols \o rcols
        Join(l, r) == [c \in Range(cols) |-> IF c \in Range(left.cols) THEN l[c] ELSE r[c]]
        Matches(l) == [j \in 1..Len(right.rows) |-> Join(l, right.rows[j])]
    IN DF(cols, Flatten([i \in 1..Len(left.rows) |-> Matches(left.rows[i])]))

\* left.merge(right, on=key): the inner join, in the order of the left rows
merge_inner(left, right, key) ==
    LET rcols == SelectSeq(right.cols, LAMBDA c : c # key)
        cols == left.cols \o rcols
        Join(l, r) == [c \in Range(cols) |-> IF c \in Range(left.cols) THEN l[c] ELSE r[c]]
        Matches(l) == LET hit == SelectSeq(right.rows, LAMBDA r : r[key] = l[key])
                      IN [j \in 1..Len(hit) |-> Join(l, hit[j])]
    IN DF(cols, Flatten([i \in 1..Len(left.rows) |-> Matches(left.rows[i])]))

HasGeo(a) == ~Absent(a.state_fips) \/ ~Absent(a.county_fips) \/ ~Absent(a.zipcode)

\* an outcome of school_query, with the content of the caller's cipcode list
\* when the call ends (line 381 assigns into the list that was passed)
WithList(o, lst) ==
    [kind |-> o.kind, val |-> o.val, msgs |-> o.msgs, nq |-> o.nq, cipcode |-> lst]

Outcome(o) == [kind |-> o.kind, val |-> o.val, msgs |-> o.msgs, nq |-> o.nq]

\* lines 374-383: each element of the cipcode list through normalize_cipcode
normalized(cipcode) ==
    [i \in 1..Len(cipcode) |-> normalize_cipcode(cipcode[i])]

\* the caller's list when the loop of lines 374-381 ends: elements before the
\* first one that raised are replaced, the others are as passed; norm is
\* normalized(cipcode)
list_after_loop(cipcode, norm) ==
    LET bad == {i \in 1..Len(norm) : norm[i].kind = "raise"}
        stop == IF bad = {} THEN Len(norm) + 1
                ELSE CHOOSE i \in bad : \A j \in bad : i <= j
    IN [i \in 1..Len(norm) |-> IF i < stop THEN PyStr(norm[i].val) ELSE cipcode[i]]

\* lines 374-388: the classification-code filter and the join, applied to
\* awd, the outcome of the select of line 372; norm is normalized(a.cipcode)
school_query_filter(a, awd, norm, hasGeog, geog, m0, n0) ==
    LET m1 == m0 \o awd.msgs
        n1 == n0 + awd.nq
        codes == {norm[i].val : i \in 1..Len(norm)}
        filtered == IF a.cipcode = <<>> THEN awd.val
                    ELSE DF(awd.val.cols,
                            SelectSeq(awd.val.rows, LAMBDA r : r.CIPCODE \in codes))
    IN IF \E i \in 1..Len(norm) : norm[i].kind = "raise"
       THEN Raise("ValueError", m1, n1)
       ELSE IF a.cipcode # <<>> /\ IsNone(awd.val) THEN Raise("TypeError", m1, n1)
       ELSE IF Absent(a.keep_geography) THEN Ok(filtered, m1, n1)
       ELSE IF IsNone(filtered) THEN Raise("AttributeError", m1, n1)
       ELSE IF ~hasGeog THEN Raise("UnboundLocalError", m1, n1)
       ELSE Ok(merge_inner(filtered, geog, "UNITID"), m1, n1)

\* lines 356-388: the query, the classification-code filter and the join
school_query_tail(d, c, md, vn, a, unitid, hasGeog, geog, m0, n0) ==
    IF a.how \notin ValidHow
    THEN WithList(Ok(None, Append(m0, "not a valid option for how"), n0), a.cipcode)
    ELSE WithList(
             school_query_filter(
                 a,
                 select3(d, c, md, vn, "C2019_A",
                         <<"UNITID", "CIPCODE">> \o Variables(a.how),
                         <<Cond("MAJORNUM", <<a.majornum>>)>>
                         \o (IF Len(unitid) > 0 THEN <<Cond("UNITID", unitid)>> ELSE <<>>)),
                 normalized(a.cipcode), hasGeog, geog, m0, n0),
             list_after_loop(a.cipcode, normalized(a.cipcode)))

\* school_query_geo without line 354: the caller's unitid list is kept
school_query_geo_keeps_unitid(d, c, md, vn, a, g) ==
    IF g.kind = "raise" THEN WithList(g, a.cipcode)
    ELSE IF IsNone(g.val) THEN WithList(Raise("TypeError", g.msgs, g.nq), a.cipcode)
    ELSE IF Len(g.val.rows) = 0
    THEN WithList(Ok(None, Append(g.msgs, "no colleges found in search area"), g.nq),
                  a.cipcode)
    ELSE IF ~Absent(a.keep_geography) /\ a.keep_geography.v \notin Range(g.val.cols)
    THEN WithList(Ok(None, Append(g.msgs, "not valid for keep_geography"), g.nq),
                  a.cipcode)
    ELSE LET utd == g.val
             geog == IF Absent(a.keep_geography) THEN None
                     ELSE LET gc == <<"UNITID", a.keep_geography.v>>
                          IN DF(gc, [i \in 1..Len(utd.rows) |-> Project(utd.rows[i], gc)])
         IN school_query_tail(d, c, md, vn, a, a.unitid, ~Absent(a.keep_geography),
                              geog, g.msgs, g.nq)

\* lines 340-354: g is the outcome of get_unitid for the geography filter
school_query_geo(d, c, md, vn, a, g) ==
    IF g.kind = "raise" THEN WithList(g, a.cipcode)
    ELSE IF IsNone(g.val) THEN WithList(Raise("TypeError", g.msgs, g.nq), a.cipcode)
    ELSE IF Len(g.val.rows) = 0
    THEN WithList(Ok(None, Append(g.msgs, "no colleges found in search area"), g.nq),
                  a.cipcode)
    ELSE IF ~Absent(a.keep_geography) /\ a.keep_geography.v \notin Range(g.val.cols)
    THEN WithList(Ok(None, Append(g.msgs, "not valid for keep_geography"), g.nq),
                  a.cipcode)
    ELSE LET utd == g.val
             geog == IF Absent(a.keep_geography) THEN None
                     ELSE LET gc == <<"UNITID", a.keep_geography.v>>
                          IN DF(gc, [i \in 1..Len(utd.rows) |-> Project(utd.rows[i], gc)])
             unitid == [i \in 1..Len(utd.rows) |-> utd.rows[i].UNITID]
         IN school_query_tail(d, c, md, vn, a, unitid, ~Absent(a.keep_geography),
                              geog, g.msgs, g.nq)

school_query(d, c, md, vn, a) ==
    IF ~HasGeo(a)
    THEN school_query_tail(d, c, md, vn, a, a.unitid, FALSE, None, <<>>, 0)
    ELSE school_query_geo(d, c, md, vn, a,
                          get_unitid(d, c, md, vn, a.state_fips, a.county_fips,
                                     a.zipcode, a.clean_geography))

(* groupby, and the aggregation methods awards, programs and schools *)

\* the columns of the model that hold strings, given how the geography
\* columns were resolved
StringColumns(clean_geography) ==
    {"CIPCODE", "STABBR", "COUNTYNM"}
    \cup (IF clean_geography THEN {"FIPS", "COUNTYCD"} ELSE {})

\* groupby sorts the groups by key, compared column by column
KeyLess(k1, k2, keycols, strcols) ==
    \E i \in 1..Len(keycols) :
        /\ \A j \in 1..(i - 1) : k1[keycols[j]] = k2[keycols[j]]
        /\ IF keycols[i] \in strcols
           THEN StrLess(k1[keycols[i]], k2[keycols[i]])
           ELSE IntLess(k1[keycols[i]], k2[keycols[i]])

GroupKeys(rows, keycols, strcols) ==
    LET keys == {Project(rows[i], keycols) : i \in 1..Len(rows)}
        Rank(k) == 1 + Cardinality({x \in keys : KeyLess(x, k, keycols, strcols)})
    IN [i \in 1..Cardinality(keys) |-> CHOOSE k \in keys : Rank(k) = i]

GroupRows(rows, keycols, k) ==
    SelectSeq(rows, LAMBDA r : Project(r, keycols) = k)

\* df.groupby(keycols).sum().reset_index()
groupby_sum(df, keycols, strcols) ==
    LET keys == GroupKeys(df.rows, keycols, strcols)
        valcols == SelectSeq(df.cols, LAMBDA c : c \notin Range(keycols))
        cols == keycols \o valcols
        Agg(k) == LET g == GroupRows(df.rows, keycols, k)
                  IN [c \in Range(cols) |->
                         IF c \in Range(keycols) THEN k[c]
                         ELSE SumSeq([i \in 1..Len(g) |-> g[i][c]])]
    IN DF(cols, [i \in 1..Len(keys) |-> Agg(keys[i])])

\* pd.DataFrame(df.groupby(keycols)[col].count()).reset_index(): the number
\* of rows of each group, under the name of the counted column
groupby_count(df, keycols, col, strcols) ==
    LET keys == GroupKeys(df.rows, keycols, strcols)
        cols == Append(keycols, col)
        Agg(k) == [c \in Range(cols) |->
                      IF c \in Range(keycols) THEN k[c]
                      ELSE Len(GroupRows(df.rows, keycols, k))]
    IN DF(cols, [i \in 1..Len(keys) |-> Agg(keys[i])])

\* df[[p(i) for i in df['CIPCODE']]]: a list of booleans masks the rows; the
\* empty list selects no column
mask_by_len(df, n) ==
    IF df.rows = <<>> THEN DF(<<>>, <<>>)
    ELSE DF(df.cols, SelectSeq(df.rows, LAMBDA r : Len(r.CIPCODE) = n))

\* df[df['CIPCODE'] == '99']
mask_total(df) == DF(df.cols, SelectSeq(df.rows, LAMBDA r : r.CIPCODE = Cip99))

\* df['CIPNAME'] = df['CIPCODE'].replace(self.metadata['CIPCODE'])
add_label(md, df) ==
    IF IsNone(md) THEN Raise("TypeError", <<>>, 0)
    ELSE IF "CIPCODE" \notin DOMAIN md.d THEN Raise("KeyError", <<>>, 0)
    ELSE LET m == md.d["CIPCODE"]
             cols == Append(df.cols, "CIPNAME")
         IN Ok(DF(cols, [i \in 1..Len(df.rows) |->
                            [c \in Range(cols) |->
                                IF c # "CIPNAME" THEN df.rows[i][c]
                                ELSE IF df.rows[i].CIPCODE \in DOMAIN m
                                     THEN m[df.rows[i].CIPCODE]
                                     ELSE df.rows[i].CIPCODE]]), <<>>, 0)

DropColumn(df, col) ==
    LET cols == SelectSeq(df.cols, LAMBDA c : c # col)
    IN DF(cols, [i \in 1..Len(df.rows) |-> Project(df.rows[i], cols)])

GroupColumns(a) ==
    IF Absent(a.keep_geography) THEN <<"CIPCODE">>
    ELSE <<a.keep_geography.v, "CIPCODE">>

\* lines 467-479 and 544-556: the granularity filter; the result is None for
\* an unrecognized level
cip_level_filter(df, cip_level) ==
    IF IsInt(cip_level, 6) THEN mask_by_len(df, 7)
    ELSE IF IsInt(cip_level, 4) THEN mask_by_len(df, 5)
    ELSE IF IsInt(cip_level, 2) THEN mask_by_len(df, 2)
    ELSE IF IsStr(cip_level, "all") THEN df
    ELSE IF IsStr(cip_level, "total") THEN mask_total(df)
    ELSE None

\* lines 459-479: sq is the outcome of school_query
awards_aggregate(md, vn, a, sq) ==
    IF sq.kind = "raise" THEN Outcome(sq)
    ELSE IF IsNone(sq.val) THEN Raise("AttributeError", sq.msgs, sq.nq)
    ELSE
    LET strcols == StringColumns(a.clean_geography)
        grouped == groupby_sum(DropColumn(sq.val, "UNITID"), GroupColumns(a), strcols)
        labelled == IF a.label THEN add_label(md, grouped) ELSE Ok(grouped, <<>>, 0)
    IN IF labelled.kind = "raise" THEN Raise(labelled.val, sq.msgs, sq.nq)
       ELSE
       LET f == cip_level_filter(labelled.val, a.cip_level)
       IN IF IsNone(f)
          THEN Ok(None, Append(sq.msgs, "not a valid option for cip_level"), sq.nq)
          ELSE LET k == clean(md, vn, f, "C2019_A", FALSE, a.rename, FALSE)
               IN [k EXCEPT !.msgs = sq.msgs, !.nq = sq.nq]

awards(d, c, md, vn, a) ==
    awards_aggregate(md, vn, a, school_query(d, c, md, vn, a))

\* programs has no majornum and no how parameter: school_query's defaults
ProgramsArgs(a) == [a EXCEPT !.majornum = 1, !.how = "total"]

\* lines 536-556: sq is the outcome of school_query
programs_aggregate(md, a, sq) ==
    IF sq.kind = "raise" THEN Outcome(sq)
    ELSE IF IsNone(sq.val) THEN Raise("AttributeError", sq.msgs, sq.nq)
    ELSE
    LET strcols == StringColumns(a.clean_geography)
        counted == groupby_count(sq.val, GroupColumns(a), "UNITID", strcols)
        prog == RenameColumns(counted, [x \in {"UNITID"} |-> "PROG_COUNT"])
        labelled == IF a.label THEN add_label(md, prog) ELSE Ok(prog, <<>>, 0)
    IN IF labelled.kind = "raise" THEN Raise(labelled.val, sq.msgs, sq.nq)
       ELSE
       LET f == cip_level_filter(labelled.val, a.cip_level)
       IN IF IsNone(f)
          THEN Ok(None, Append(sq.msgs, "not a valid option for cip_level"), sq.nq)
          ELSE Ok(f, sq.msgs, sq.nq)

programs(d, c, md, vn, a) ==
    programs_aggregate(md, a, school_query(d, c, md, vn, ProgramsArgs(a)))

\* schools passes cip_level='total' and leaves the other parameters of
\* school_query at their defaults
SchoolsArgs(a) ==
    [a EXCEPT !.cip_level = PyStr("total"), !.cipcode = <<>>, !.majornum = 1,
              !.how = "total", !.rename = TRUE, !.label = FALSE]

\* lines 597-605: sq is the outcome of school_query
schools_count(a, sq) ==
    IF sq.kind = "raise" THEN Outcome(sq)
    ELSE IF Absent(a.keep_geography)
    THEN IF IsNone(sq.val) THEN Ok(None, Append(sq.msgs, "error"), sq.nq)
         ELSE Ok(PyInt(Len(sq.val.rows)), sq.msgs, sq.nq)
    ELSE IF IsNone(sq.val) THEN Raise("AttributeError", sq.msgs, sq.nq)
    ELSE Ok(groupby_count(sq.val, <<a.keep_geography.v>>, "UNITID",
                          StringColumns(a.clean_geography)), sq.msgs, sq.nq)

schools(d, c, md, vn, a) ==
    schools_count(a, school_query(d, c, md, vn, SchoolsArgs(a)))

(* The arguments the caller passes.  Each parameter has a sequence of       *)
(* options whose first element is the default of the source; a call departs *)
(* from the defaults with a total weight of at most MaxNonDefault.          *)

MaxNonDefault == 2

CipInputs == <<PyInt(11), PyInt(1), PyInt(99), PyFloat(1, <<"1">>),
               PyFloat(11, <<"0", "1", "0", "1">>), PyStr(<<"1", ".", "0", "1", "0", "1">>)>>

Params == <<"state_fips", "county_fips", "zipcode", "cip_level", "cipcode", "majornum",
            "unitid", "how", "rename", "label", "keep_geography", "clean_geography">>

Options ==
    [state_fips |-> <<None, PyInt(1), PyList(<<1, 2>>), PyInt(9), PyList(<<>>)>>,
     county_fips |-> <<None, PyInt(21)>>,
     zipcode |-> <<None, PyList(<<100, 200>>)>>,
     cip_level |-> <<PyInt(6), PyInt(4), PyInt(2), PyStr("all"), PyStr("total"),
                     PyStr("bogus")>>,
     cipcode |-> <<<<>>>>,
     majornum |-> <<1, 2>>,
     unitid |-> <<<<>>, <<1>>>>,
     how |-> <<"total", "sex", "bogus">>,
     rename |-> <<TRUE, FALSE>>,
     label |-> <<FALSE, TRUE>>,
     keep_geography |-> <<None, PyStr("FIPS"), PyStr("COUNTYCD"), PyStr("BOGUS")>>,
     clean_geography |-> <<FALSE, TRUE>>]

\* the cipcode lists of a given length
RECURSIVE CipLists(_)
CipLists(n) ==
    IF n = 0 THEN {<<>>}
    ELSE {Append(l, CipInputs[i]) : l \in CipLists(n - 1), i \in 1..Len(CipInputs)}

\* the ways to fill parameters i.. with at most budget weight of departure,
\* varying only the parameters in vary
RECURSIVE ArgTails(_, _, _)
ArgTails(i, budget, vary) ==
    IF i > Len(Params) THEN {<<>>}
    ELSE LET p == Params[i]
             alts == IF p \notin vary \/ budget = 0 THEN {}
                     ELSE IF p = "cipcode"
                     THEN UNION {{<<l>> \o r : l \in CipLists(n),
                                               r \in ArgTails(i + 1, budget - n, vary)} :
                                 n \in 1..budget}
                     ELSE {<<Options[p][j]>> \o r : j \in 2..Len(Options[p]),
                                                   r \in ArgTails(i + 1, budget - 1, vary)}
         IN {<<Options[p][1]>> \o r : r \in ArgTails(i + 1, budget, vary)} \cup alts

ArgRecord(s) ==
    [state_fips |-> s[1], county_fips |-> s[2], zipcode |-> s[3], cip_level |-> s[4],
     cipcode |-> s[5], majornum |-> s[6], unitid |-> s[7], how |-> s[8], rename |-> s[9],
     label |-> s[10], keep_geography |-> s[11], clean_geography |-> s[12]]

ArgSpace(vary) == {ArgRecord(s) : s \in ArgTails(1, MaxNonDefault, vary)}

\* school_query never reads cip_level, rename or label
SchoolQueryArgs ==
    ArgSpace({"state_fips", "county_fips", "zipcode", "cipcode", "majornum", "unitid",
              "how", "keep_geography", "clean_geography"})

AwardsArgs == ArgSpace(Range(Params))

ProgramsArgSpace == ArgSpace(Range(Params) \ {"majornum", "how"})

SchoolsArgSpace ==
    ArgSpace({"state_fips", "county_fips", "zipcode", "unitid", "keep_geography",
              "clean_geography"})

GetUnitidArgs ==
    ArgSpace({"state_fips", "county_fips", "zipcode", "clean_geography"})

SelectArgs ==
    [name : {"", "C2019_A", "HD2019", "NOPE"},
     variables : {Star, <<"UNITID", "CIPCODE">>},
     where : {<<>>, <<Cond("UNITID", <<1>>)>>},
     sql : {NoSql, RawSql("C2019_A", TRUE, FALSE, TRUE), RawSql("C2019_A", TRUE, TRUE, TRUE),
            RawSql("C2019_A", FALSE, FALSE, TRUE), RawSql("C2019_A", TRUE, FALSE, FALSE)},
     replace : BOOLEAN, rename : BOOLEAN, replaceNoneRaises : BOOLEAN]

(* State machine of the IPEDS handler.  Calls are synchronous: the caller   *)
(* makes one call, receives its outcome in ret and drops it (Discard)       *)
(* before the next call.                                                    *)

Idle == [op |-> "idle"]

IPEDSInitial ==
    /\ db = NoDatabase
    /\ conn = "none"
    /\ metadata = None
    /\ varnames = None

RosettaInitial == stone = None

\* the class attributes of ONETHandler, and no storage directory
ONETInitial ==
    /\ fs = {}
    /\ target_exists = FALSE
    /\ feed = 0
    /\ current = None
    /\ version = 0
    /\ current_path = None
    /\ onet = "none"

CallInitial ==
    /\ call = Idle
    /\ ret = Ok(None, <<>>, 0)

Init == IPEDSInitial /\ RosettaInitial /\ ONETInitial /\ CallInitial

\* connect(engine, db): opens the database file named by db
Connect ==
    /\ call = Idle
    /\ \E d \in Databases, reachable \in BOOLEAN :
        /\ call' = [op |-> "connect", reachable |-> reachable]
        /\ IF reachable
           THEN /\ db' = d
                /\ conn' = "open"
                /\ metadata' = get_metadata(d, "open").val
                /\ varnames' = get_varnames(d, "open").val
                /\ ret' = Ok(None, get_metadata(d, "open").msgs
                                   \o get_varnames(d, "open").msgs, 3)
           ELSE /\ UNCHANGED <<db, conn, metadata, varnames>>
                /\ ret' = Raise("Error", <<>>, 0)
        /\ UNCHANGED <<stone, onetVars>>

Close ==
    /\ call = Idle
    /\ call' = [op |-> "close"]
    /\ conn' = IF conn = "open" THEN "closed" ELSE conn
    /\ ret' = Ok(None, IF conn = "open" THEN <<>> ELSE <<"error">>, 0)
    /\ UNCHANGED <<db, metadata, varnames, stone, onetVars>>

Discard ==
    /\ call # Idle
    /\ call' = Idle
    /\ ret' = Ok(None, <<>>, 0)
    /\ UNCHANGED <<ipedsVars, stone, onetVars>>

\* the caller receives the outcome r of the call op(a)
Returns(op, a, r) ==
    /\ call' = [op |-> op, a |-> a]
    /\ ret' = r
    /\ UNCHANGED <<ipedsVars, stone, onetVars>>

CallSelect ==
    /\ call = Idle
    /\ \E a \in SelectArgs :
        Returns("select", a,
                select(db, conn, metadata, varnames, a.name, a.variables, a.where, a.sql,
                       a.replace, a.rename, a.replaceNoneRaises))

CallGetUnitid ==
    /\ call = Idle
    /\ \E a \in GetUnitidArgs :
        Returns("get_unitid", a,
                get_unitid(db, conn, metadata, varnames, a.state_fips, a.county_fips,
                           a.zipcode, a.clean_geography))

\* a call that goes through school_query: the caller's cipcode list is left
\* as school_query left it
ReturnsAgg(op, a, r, sq) ==
    /\ call' = [op |-> op, a |-> a, cipcode |-> sq.cipcode]
    /\ ret' = r
    /\ UNCHANGED <<ipedsVars, stone, onetVars>>

CallSchoolQuery ==
    /\ call = Idle
    /\ \E a \in SchoolQueryArgs :
        ReturnsAgg("school_query", a,
                   Outcome(school_query(db, conn, metadata, varnames, a)),
                   school_query(db, conn, metadata, varnames, a))

CallAwards ==
    /\ call = Idle
    /\ \E a \in AwardsArgs :
        ReturnsAgg("awards", a, awards(db, conn, metadata, varnames, a),
                   school_query(db, conn, metadata, varnames, a))

CallPrograms ==
    /\ call = Idle
    /\ \E a \in ProgramsArgSpace :
        ReturnsAgg("programs", a, programs(db, conn, metadata, varnames, a),
                   school_query(db, conn, metadata, varnames, ProgramsArgs(a)))

CallSchools ==
    /\ call = Idle
    /\ \E a \in SchoolsArgSpace :
        ReturnsAgg("schools", a, schools(db, conn, metadata, varnames, a),
                   school_query(db, conn, metadata, varnames, SchoolsArgs(a)))

NextIPEDS ==
    \/ Connect
    \/ Close
    \/ CallSelect
    \/ CallGetUnitid
    \/ CallSchoolQuery
    \/ CallAwards
    \/ CallPrograms
    \/ CallSchools
    \/ Discard

SpecIPEDS == Init /\ [][NextIPEDS]_vars

(* Properties of the IPEDS handler *)

ReturnedNone == ret.kind = "ok" /\ IsNone(ret.val)

ReturnedTable == ret.kind = "ok" /\ ret.val.t = "df"

Aggregations == {"awards", "programs", "schools"}

ValidCipLevel(l) ==
    IsInt(l, 6) \/ IsInt(l, 4) \/ IsInt(l, 2) \/ IsStr(l, "all") \/ IsStr(l, "total")

ValidScale == {"IM", "LV", "product"}

ValidJoin == {"inner", "left", "right", "outer", "cross"}

\* the values a geography filter admits
FilterValues(x) == IF x.t = "list" THEN Range(x.v) ELSE {x.v}

\* the institutions of HD2019 that satisfy the geography filter of a
ResolvedIds(a) ==
    {r.UNITID : r \in {h \in Range(db.HD2019) :
        /\ Absent(a.state_fips) \/ h.FIPS \in FilterValues(a.state_fips)
        /\ Absent(a.county_fips) \/ h.COUNTYCD \in FilterValues(a.county_fips)
        /\ Absent(a.zipcode) \/ h.ZIP \in FilterValues(a.zipcode)}}

\* the classification code of a result row, under its raw or its renamed column
CipOf(r) == IF "CIPCODE" \in DOMAIN r THEN r.CIPCODE ELSE r["CIP Code"]

\* the defaults of the source for the parameters of the aggregation methods
DefaultArgs == ArgRecord([i \in 1..Len(Params) |-> Options[Params[i]][1]])

\* C1: a call of awards, programs, schools, quant_view or translate with an
\* unrecognized how (breakdown), cip_level, scale or how (join type) returns
\* None after printing a message; no exception leaves the call.  (Stated for
\* the aggregation methods on an open connection with every other argument
\* at its default.)
C1_UnknownOptionReturnsNone ==
    (\/ /\ call.op \in Aggregations
        /\ conn = "open"
        /\ call.a = [DefaultArgs EXCEPT !.how = call.a.how, !.cip_level = call.a.cip_level]
        /\ call.a.how \notin ValidHow \/ ~ValidCipLevel(call.a.cip_level)
     \/ call.op = "quant_view" /\ call.a.scale \notin ValidScale
     \/ call.op = "translate" /\ call.a.how \notin ValidJoin)
    => ReturnedNone /\ ret.msgs # <<>>

\* the rows awards or programs returns for the arguments of the last call
\* with cip_level replaced by l
LevelRows(l) ==
    LET a == [call.a EXCEPT !.cip_level = l]
        r == IF call.op = "awards" THEN awards(db, conn, metadata, varnames, a)
             ELSE programs(db, conn, metadata, varnames, a)
    IN Range(r.val.rows)

\* C2: in a table aggregated by awards or programs the rows of cip_level 6
\* have codes of length 7, of cip_level 4 length 5, of cip_level 2 length 2,
\* of cip_level 'total' the code "99"; the four subsets lie in the 'all'
\* result and no row belongs to two of them.
C2_LevelsPartitionCodes ==
    (call.op \in {"awards", "programs"} /\ ReturnedTable)
    => LET s6 == LevelRows(PyInt(6))
           s4 == LevelRows(PyInt(4))
           s2 == LevelRows(PyInt(2))
           st == LevelRows(PyStr("total"))
           all == LevelRows(PyStr("all"))
       IN /\ \A r \in s6 : Len(CipOf(r)) = 7
          /\ \A r \in s4 : Len(CipOf(r)) = 5
          /\ \A r \in s2 : Len(CipOf(r)) = 2
          /\ \A r \in st : CipOf(r) = Cip99
          /\ (s6 \cup s4 \cup s2 \cup st) \subseteq all
          /\ s6 \cap s4 = {} /\ s6 \cap s2 = {} /\ s6 \cap st = {}
          /\ s4 \cap s2 = {} /\ s4 \cap st = {} /\ s2 \cap st = {}

\* C3: schools without keep_geography returns the number of distinct
\* institutions, among those resolved for the geography filter, that have a
\* row in C2019_A; an institution with several award rows counts once.
C3_SchoolsCountsDistinctInstitutions ==
    (/\ call.op = "schools"
     /\ Absent(call.a.keep_geography)
     /\ HasGeo(call.a)
     /\ ret.kind = "ok"
     /\ ret.val.t = "int")
    => ret.val.v = Cardinality({r.UNITID : r \in {w \in Range(db.C2019_A) :
                                   w.MAJORNUM = 1 /\ w.UNITID \in ResolvedIds(call.a)}})

\* C4: the per-group counts of schools(keep_geography="FIPS") add up to the
\* number schools returns for the same filter without keep_geography.
C4_GroupCountsSumToScalar ==
    (/\ call.op = "schools"
     /\ IsStr(call.a.keep_geography, "FIPS")
     /\ ReturnedTable)
    => LET scalar == schools(db, conn, metadata, varnames,
                             [call.a EXCEPT !.keep_geography = None])
       IN /\ scalar.kind = "ok"
          /\ scalar.val.t = "int"
          /\ SumSeq([i \in 1..Len(ret.val.rows) |-> ret.val.rows[i].UNITID]) = scalar.val.v

C4_Witness ==
    /\ call.op = "schools"
    /\ IsStr(call.a.keep_geography, "FIPS")
    /\ ReturnedTable
    /\ Len(ret.val.rows) = 2
    /\ Len(db.C2019_A) = 2

\* the resolver found no institution for the filter of a, or its select failed
NothingResolved(a) ==
    LET g == get_unitid(db, conn, metadata, varnames, a.state_fips, a.county_fips,
                        a.zipcode, a.clean_geography)
    IN g.kind = "raise" \/ IsNone(g.val) \/ Len(g.val.rows) = 0

\* C5: with a geography filter for which no institution is found (or whose
\* select failed), awards, programs and schools report the condition and
\* return None; no exception leaves the call.  (Stated for an open
\* connection.)
C5_NoInstitutionsReturnsNone ==
    (/\ call.op \in Aggregations
     /\ conn = "open"
     /\ HasGeo(call.a)
     /\ NothingResolved(call.a))
    => ReturnedNone /\ ret.msgs # <<>>

\* the integer part and the fractional digits of a classification code as
\* the caller wrote it
IntegerPart(c) ==
    CASE c.t = "int" -> c.v
      [] c.t = "float" -> c.ip
      [] c.t = "str" ->
            LET n == CHOOSE k \in 0..Len(c.v) :
                        /\ \A j \in 1..k : c.v[j] # "."
                        /\ k = Len(c.v) \/ c.v[k + 1] = "."
            IN ParseInt(SubSeq(c.v, 1, n))

HasFraction(c) ==
    CASE c.t = "int" -> FALSE
      [] c.t = "float" -> TRUE
      [] c.t = "str" -> \E k \in 1..Len(c.v) : c.v[k] = "."

FractionPart(c) ==
    CASE c.t = "float" -> c.fr
      [] c.t = "str" ->
            LET k == CHOOSE i \in 1..Len(c.v) :
                        c.v[i] = "." /\ \A j \in 1..(i - 1) : c.v[j] # "."
            IN SubSeq(c.v, k + 1, Len(c.v))

TwoDigits(n) == <<DigitChars[(n \div 10) + 1], DigitChars[(n % 10) + 1]>>

\* \d{2}(\.\d+)?
MatchesCipPattern(s) ==
    /\ Len(s) >= 2
    /\ IsDigit(s[1]) /\ IsDigit(s[2])
    /\ \/ Len(s) = 2
       \/ /\ Len(s) >= 4
          /\ s[3] = "."
          /\ \A i \in 4..Len(s) : IsDigit(s[i])

\* C6: school_query rewrites every code of cipcode as its integer part padded
\* to two digits, followed by a dot and the fractional part if there was one,
\* which matches \d{2}(\.\d+)?; the rows it returns are exactly the queried
\* rows whose CIPCODE is one of these codes.
C6_CipcodeNormalizedAndFiltered ==
    (call.op = "school_query" /\ call.a.cipcode # <<>> /\ ReturnedTable)
    => /\ Len(call.cipcode) = Len(call.a.cipcode)
       /\ \A i \in 1..Len(call.cipcode) :
             /\ call.cipcode[i].t = "str"
             /\ MatchesCipPattern(call.cipcode[i].v)
             /\ call.cipcode[i].v =
                   TwoDigits(IntegerPart(call.a.cipcode[i]))
                   \o (IF HasFraction(call.a.cipcode[i])
                       THEN <<".">> \o FractionPart(call.a.cipcode[i]) ELSE <<>>)
       /\ LET ids == IF HasGeo(call.a) THEN ResolvedIds(call.a) ELSE Range(call.a.unitid)
              base == <<"UNITID", "CIPCODE">> \o Variables(call.a.how)
              all == IF HasGeo(call.a) THEN FALSE ELSE call.a.unitid = <<>>
              want == SelectSeq(db.C2019_A, LAMBDA w :
                         /\ w.MAJORNUM = call.a.majornum
                         /\ all \/ w.UNITID \in ids
                         /\ \E i \in 1..Len(call.cipcode) : w.CIPCODE = call.cipcode[i].v)
          IN [i \in 1..Len(ret.val.rows) |-> Project(ret.val.rows[i], base)]
             = [i \in 1..Len(want) |-> Project(want[i], base)]

C6_Witness ==
    /\ call.op = "school_query"
    /\ ReturnedTable
    /\ ret.val.rows # <<>>
    /\ \E i \in 1..Len(call.cipcode) :
          /\ call.a.cipcode[i].t = "str"
          /\ call.cipcode[i].v = Cip010101
          /\ call.a.cipcode[i].v # Cip010101

\* C7: get_unitid with state_fips, county_fips and zipcode all absent returns
\* an empty result and sends no query, whatever clean_geography is.
C7_NoFilterNoQuery ==
    (/\ call.op = "get_unitid"
     /\ Absent(call.a.state_fips)
     /\ Absent(call.a.county_fips)
     /\ Absent(call.a.zipcode))
    => ret.kind = "ok" /\ ret.val = EmptyTuple /\ ret.nq = 0 /\ ret.msgs = <<>>

C7_Witness ==
    /\ call.op = "get_unitid"
    /\ ~HasGeo(call.a)
    /\ call.a.clean_geography
    /\ conn = "open"
    /\ ret.val = EmptyTuple

\* the arguments of a select for which executing the query, parsing the
\* relation name out of the raw query, or replace/rename raises
SelectFails(a) ==
    LET raw == a.sql # NoSql
        table == IF raw THEN a.sql.table ELSE a.name
        lookup == IF raw /\ a.sql.semicolon THEN table \o ";" ELSE table
        execFails ==
            \/ conn # "open"
            \/ table \notin DOMAIN db
            \/ raw /\ ~a.sql.valid
            \/ ~raw /\ a.variables # Star /\ ~(Range(a.variables) \subseteq Schema(table))
            \/ ~raw /\ \E i \in 1..Len(a.where) : a.where[i].col \notin Schema(table)
        parseFails == raw /\ ~a.sql.upperFrom
        cleanFails ==
            \/ a.replace /\ IsNone(metadata) /\ a.replaceNoneRaises
            \/ a.rename /\ (IsNone(varnames) \/ lookup \notin DOMAIN varnames.d)
    IN ~(a.name = "" /\ ~raw) /\ (execFails \/ parseFails \/ cleanFails)

\* C9: select returns None when neither name nor sql is given; an error in
\* running the query, in parsing the FROM clause of a raw query or in
\* replace/rename is printed and select returns None; no exception leaves
\* the call.
C9_SelectNeverRaises ==
    call.op = "select"
    => /\ ret.kind = "ok"
       /\ (call.a.name = "" /\ call.a.sql = NoSql) => IsNone(ret.val)
       /\ SelectFails(call.a) => IsNone(ret.val) /\ ret.msgs # <<>>
       /\ ~SelectFails(call.a) /\ ~(call.a.name = "" /\ call.a.sql = NoSql)
             => ret.val.t = "df"

C9_Witness ==
    /\ call.op = "select"
    /\ conn = "open"
    /\ call.a.name = "HD2019"
    /\ call.a.sql = NoSql
    /\ call.a.rename
    /\ ~IsNone(varnames)
    /\ ReturnedNone
    /\ ret.msgs # <<>>
    /\ ret.nq = 1

(* Rosetta: the crosswalk table and translate *)

NaN == [t |-> "nan"]
Text(x) == [t |-> "text", v |-> x]
Num(x) == [t |-> "num", v |-> x]

\* a cell that spells a list literal; spaced tells "[a, b]" from "[a,b]"
ListText(members, spaced) == [t |-> "listtext", list |-> members, spaced |-> spaced]

MaxStoneRows == 2
MaxDataRows == 2

StoneRowPool == <<
    [soc |-> Text("X"), cip_2020 |-> ListText(<<Num("11.01"), Num("11.02")>>, TRUE)],
    [soc |-> Text("X"), cip_2020 |-> ListText(<<Num("11.01"), Num("11.02")>>, FALSE)],
    [soc |-> Text("Y"), cip_2020 |-> ListText(<<Num("11.01")>>, TRUE)],
    [soc |-> Text("Y"), cip_2020 |-> NaN],
    [soc |-> NaN, cip_2020 |-> ListText(<<Num("11.02")>>, TRUE)],
    [soc |-> Text("X"), cip_2020 |-> ListText(<<>>, TRUE)] >>

\* the sequences of at most n elements of the pool
RECURSIVE SeqsUpTo(_, _)
SeqsUpTo(pool, n) ==
    IF n = 0 THEN {<<>>}
    ELSE LET shorter == SeqsUpTo(pool, n - 1)
         IN shorter \cup {Append(q, pool[i]) : q \in {x \in shorter : Len(x) = n - 1},
                                               i \in 1..Len(pool)}

Stones == {DF(<<"soc", "cip_2020">>, rows) : rows \in SeqsUpTo(StoneRowPool, MaxStoneRows)}

SocDataPool == <<[soc |-> Text("X"), n |-> 1], [soc |-> Text("Y"), n |-> 2],
                 [soc |-> Text("Z"), n |-> 3]>>

CipDataPool == <<[cip_2020 |-> Num("11.01"), n |-> 1], [cip_2020 |-> Num("11.02"), n |-> 2],
                 [cip_2020 |-> Num("52.01"), n |-> 3]>>

SocData == {DF(<<"soc", "n">>, rows) : rows \in SeqsUpTo(SocDataPool, MaxDataRows)}
CipData == {DF(<<"cip_2020", "n">>, rows) : rows \in SeqsUpTo(CipDataPool, MaxDataRows)}

SocData2 == DF(<<"soc", "m">>, <<[soc |-> Text("X"), m |-> 7]>>)
CipData2 == DF(<<"cip_2020", "m">>, <<[cip_2020 |-> Num("11.01"), m |-> 7],
                                      [cip_2020 |-> Num("11.01"), m |-> 8]>>)

\* df.drop_duplicates(): the first occurrence of each row
drop_duplicates(rows) ==
    SubSeqBy(rows, {i \in 1..Len(rows) : \A j \in 1..(i - 1) : rows[j] # rows[i]})

\* df.dropna(): the rows without a missing cell
dropna(rows) ==
    SelectSeq(rows, LAMBDA r : \A c \in DOMAIN r : r[c] # NaN)

\* an expansion that keeps only the first member of a list cell
expand_first_member(rows, other) ==
    Flatten([i \in 1..Len(rows) |->
                [j \in 1..(IF rows[i].cip_2020.list = <<>> THEN 0 ELSE 1) |->
                    [c \in {other, "cip_2020"} |->
                        IF c = other THEN rows[i][other] ELSE rows[i].cip_2020.list[j]]]])

\* lines 927-932: one row per member of the list the cip_2020 cell spells
expand_cip_2020(rows, other) ==
    Flatten([i \in 1..Len(rows) |->
                [j \in 1..Len(rows[i].cip_2020.list) |->
                    [c \in {other, "cip_2020"} |->
                        IF c = other THEN rows[i][other] ELSE rows[i].cip_2020.list[j]]]])

\* left.merge(right, on=key, how='left'): unmatched left rows are kept, with
\* missing values in the columns of right
merge_left(left, right, key) ==
    LET rcols == SelectSeq(right.cols, LAMBDA c : c # key)
        cols == left.cols \o rcols
        Join(l, r) == [c \in Range(cols) |-> IF c \in Range(left.cols) THEN l[c] ELSE r[c]]
        Alone(l) == [c \in Range(cols) |-> IF c \in Range(left.cols) THEN l[c] ELSE NaN]
        Matches(l) == LET hit == SelectSeq(right.rows, LAMBDA r : r[key] = l[key])
                      IN IF hit = <<>> THEN <<Alone(l)>>
                         ELSE [j \in 1..Len(hit) |-> Join(l, hit[j])]
    IN DF(cols, Flatten([i \in 1..Len(left.rows) |-> Matches(left.rows[i])]))

\* DataFrame.merge(right, on=key, how=how)
merge(left, right, key, how) ==
    IF key \notin Range(left.cols) \/ key \notin Range(right.cols)
    THEN Raise("KeyError", <<>>, 0)
    ELSE IF how = "inner" THEN Ok(merge_inner(left, right, key), <<>>, 0)
    ELSE IF how = "left" THEN Ok(merge_left(left, right, key), <<>>, 0)
    ELSE Raise("MergeError", <<>>, 0)

DataLen(x) == IF x.t = "list" THEN Len(x.v) ELSE Len(x.rows)

translate(st, data, left, right, data_2, how) ==
    IF IsNone(st) THEN Raise("TypeError", <<>>, 0)
    ELSE IF ~({left, right} \subseteq Range(st.cols)) THEN Raise("KeyError", <<>>, 0)
    ELSE
    LET pairs == dropna(drop_duplicates(
                    [i \in 1..Len(st.rows) |-> Project(st.rows[i], <<left, right>>)]))
        isCip == left = "cip_2020" \/ right = "cip_2020"
        other == IF left # "cip_2020" THEN left ELSE right
    IN IF isCip /\ \E i \in 1..Len(pairs) : pairs[i].cip_2020.t # "listtext"
       THEN Raise("TypeError", <<>>, 0)
       ELSE
       LET h == expand_cip_2020(pairs, other)
           temp == IF ~isCip THEN DF(<<left, right>>, pairs)
                   ELSE IF h = <<>> THEN DF(<<>>, <<>>)
                   ELSE DF(<<other, "cip_2020">>, h)
           first == merge(data, temp, left, how)
       IN IF first.kind = "raise" THEN first
          ELSE IF DataLen(data_2) > 0 THEN merge(first.val, data_2, right, how)
          ELSE first

TranslateArgs ==
    [data : SocData, left : {"soc"}, right : {"cip_2020"},
     data_2 : {PyList(<<>>), CipData2}, how : {"inner", "left", "bogus"}]
    \cup
    [data : CipData, left : {"cip_2020"}, right : {"soc"},
     data_2 : {PyList(<<>>), SocData2}, how : {"inner", "left", "bogus"}]

\* Rosetta(path): read_csv either loads the crosswalk or fails and is reported
RosettaConstruct ==
    \E st \in Stones \cup {None} :
        /\ call = Idle
        /\ stone' = st
        /\ call' = [op |-> "Rosetta", loaded |-> ~IsNone(st)]
        /\ ret' = Ok(None, IF IsNone(st) THEN <<"error">> ELSE <<>>, 0)
        /\ UNCHANGED <<ipedsVars, onetVars>>

CallTranslate ==
    \E a \in TranslateArgs :
        /\ call = Idle
        /\ call' = [op |-> "translate", a |-> a]
        /\ ret' = translate(stone, a.data, a.left, a.right, a.data_2, a.how)
        /\ UNCHANGED <<ipedsVars, stone, onetVars>>

NextRosetta ==
    \/ RosettaConstruct
    \/ CallTranslate
    \/ Discard

SpecRosetta == Init /\ [][NextRosetta]_vars

\* the distinct crosswalk pairs without a missing cell
StonePairs == {r \in Range(stone.rows) : r.soc # NaN /\ r.cip_2020 # NaN}

\* the members of the lists of a set of pairs, each as <<pair, position>>
Members(pairs) ==
    UNION {{<<p, j>> : j \in 1..Len(p.cip_2020.list)} : p \in pairs}

Codes == {Num("11.01"), Num("11.02"), Num("52.01")}

\* C8: with cip_2020 as a key, every distinct non-null crosswalk pair whose
\* cell lists n codes stands for n rows in the join, one per code and each
\* with the other key's value: a data row that matches such a pair on the
\* other key yields one output row per code, with all its own columns, and
\* rows are not deduplicated after the join.
C8_ListCellsExpandPerMember ==
    (/\ call.op = "translate"
     /\ call.a.how = "inner"
     /\ DataLen(call.a.data_2) = 0
     /\ ret.kind = "ok")
    => LET data == call.a.data
           out == ret.val.rows
           Same(r, d) == Project(r, data.cols) = d
           OutCount(d, o, c) ==
               Cardinality({k \in 1..Len(out) :
                   Same(out[k], d) /\ out[k].soc = o /\ out[k].cip_2020 = c})
           Copies(d) == Cardinality({k \in 1..Len(data.rows) : data.rows[k] = d})
           Expected(d, o, c) ==
               LET hits == {p \in StonePairs : p.soc = o}
               IN Copies(d) * Cardinality({m \in Members(hits) :
                                              m[1].cip_2020.list[m[2]] = c})
       IN /\ \A k \in 1..Len(out) : \E i \in 1..Len(data.rows) : Same(out[k], data.rows[i])
          /\ \A d \in Range(data.rows) : \A c \in Codes :
                IF call.a.left = "soc"
                THEN /\ OutCount(d, d.soc, c) = Expected(d, d.soc, c)
                     /\ \A k \in 1..Len(out) : Same(out[k], d) => out[k].soc = d.soc
                ELSE \A o \in {Text("X"), Text("Y")} :
                        OutCount(d, o, c) = (IF c = d.cip_2020 THEN Expected(d, o, c) ELSE 0)

C8_Witness ==
    /\ call.op = "translate"
    /\ call.a.how = "inner"
    /\ call.a.left = "soc"
    /\ DataLen(call.a.data_2) = 0
    /\ Len(call.a.data.rows) = 1
    /\ ret.kind = "ok"
    /\ Cardinality(StonePairs) = 1
    /\ Len(ret.val.rows) = 2
    /\ ret.val.rows[1].cip_2020 = Num("11.01")
    /\ ret.val.rows[2].cip_2020 = Num("11.02")
    /\ ret.val.rows[1].n = ret.val.rows[2].n

(* ONETHandler: the storage directory, the release feed and the bookkeeping *)
(* of the current version.  A version number is held in tenths (26.1 is   *)
(* 261); the entries of the storage directory are file names.              *)

index ==
    ("ab_to_wa" :> "Abilities to Work Activities.txt") @@
    ("ab_to_wc" :> "Abilities to Work Context.txt") @@
    ("ab" :> "Abilities.txt") @@
    ("alt_title" :> "Alternate Titles.txt") @@
    ("career_change" :> "Career Changers Matrix.txt") @@
    ("career_start" :> "Career Starters Matrix.txt") @@
    ("cont_ref" :> "Content Model Reference.txt") @@
    ("dwa_ref" :> "DWA Reference.txt") @@
    ("ed_cat" :> "Education, Training, and Experience Categories.txt") @@
    ("ed" :> "Education, Training, and Experience.txt") @@
    ("et" :> "Emerging Tasks.txt") @@
    ("in" :> "Interests.txt") @@
    ("iwa_ref" :> "IWA Reference.txt") @@
    ("jz_ref" :> "Job Zone Reference.txt") @@
    ("jz" :> "Job Zones.txt") @@
    ("kn" :> "Knowledge.txt") @@
    ("lsa" :> "Level Scale Anchors.txt") @@
    ("occ" :> "Occupation Data.txt") @@
    ("occ_level" :> "Occupation Level Metadata.txt") @@
    ("sample_title" :> "Sample of Reported Titles.txt") @@
    ("sc_ref" :> "Scales Reference.txt") @@
    ("sk_to_wa" :> "Skills to Work Activities.txt") @@
    ("sk_to_wc" :> "Skills to Work Context.txt") @@
    ("sk" :> "Skills.txt") @@
    ("survey_loc" :> "Survey Booklet Locations.txt") @@
    ("tsk_cat" :> "Task Categories.txt") @@
    ("tsk_rate" :> "Task Ratings.txt") @@
    ("tsk_state" :> "Task Statements.txt") @@
    ("tsk_to_dwa" :> "Tasks to DWAs.txt") @@
    ("tech" :> "Technology Skills.txt") @@
    ("tool" :> "Tools Used.txt") @@
    ("unspsc" :> "UNSPSC Reference.txt") @@
    ("wa" :> "Work Activities.txt") @@
    ("wc_cat" :> "Work Context Categories.txt") @@
    ("wc" :> "Work Context.txt") @@
    ("ws" :> "Work Styles.txt") @@
    ("wv" :> "Work Values.txt")

\* the methods the class defines
Methods == {"__init__", "download_data", "get_new_database", "get_table",
            "quant_view", "qual_view"}

\* 'db_<major>_<minor>_text', the directory an archive unpacks to
DirName(v) ==
    <<"d", "b", "_">> \o Digits(v \div 10) \o <<"_">> \o Digits(v % 10)
    \o <<"_", "t", "e", "x", "t">>

DotZip == <<".", "z", "i", "p">>

ZipName(v) == DirName(v) \o DotZip

\* sub in s
Contains(s, sub) ==
    \E i \in 1..(Len(s) - Len(sub) + 1) : SubSeq(s, i, i + Len(sub) - 1) = sub

\* the position of the first occurrence of sub in s, 0 if there is none
Find(s, sub) ==
    IF ~Contains(s, sub) THEN 0
    ELSE CHOOSE i \in 1..(Len(s) - Len(sub) + 1) :
            /\ SubSeq(s, i, i + Len(sub) - 1) = sub
            /\ \A j \in 1..(i - 1) : SubSeq(s, j, j + Len(sub) - 1) # sub

\* [i for i in os.listdir(self.target) if '.zip' not in i]
NonArchives(entries) == {e \in entries : ~Contains(e, DotZip)}

\* max() of a set of str
StrMax(S) == CHOOSE m \in S : \A e \in S : e = m \/ StrLess(e, m)

\* s.strip(chars)
RECURSIVE Strip(_, _)
Strip(s, chars) ==
    IF s = <<>> THEN s
    ELSE IF Head(s) \in chars THEN Strip(Tail(s), chars)
    ELSE IF s[Len(s)] \in chars THEN Strip(SubSeq(s, 1, Len(s) - 1), chars)
    ELSE s

\* float(name.split('db_')[1].split('_text')[0].replace('_','.')), in tenths;
\* the model's names carry one digit after the separator
parse_version(name) ==
    LET p == Find(name, <<"d", "b", "_">>)
        rest == SubSeq(name, p + 3, Len(name))
        q == Find(rest, <<"_", "t", "e", "x", "t">>)
        num == IF q = 0 THEN rest ELSE SubSeq(rest, 1, q - 1)
        parts == SplitDot([i \in 1..Len(num) |-> IF num[i] = "_" THEN "." ELSE num[i]])
    IN IF p = 0 THEN Raise("IndexError", <<>>, 0)
       ELSE IF Len(parts) > 2 \/ \E i \in 1..Len(parts) : ~IntParses(parts[i])
       THEN Raise("ValueError", <<>>, 0)
       ELSE Ok(10 * ParseInt(parts[1])
               + (IF Len(parts) = 2 THEN DigitVal(parts[2][1]) ELSE 0), <<>>, 0)

\* a path: the directory it starts from and the entry it names
TargetPath(name) == [t |-> "path", dir |-> "target", name |-> name]
RelativePath(name) == [t |-> "path", dir |-> "cwd", name |-> name]

\* the handler's attributes and the storage directory, as one record
OnetState(cur, ver, path, entries, exists) ==
    [current |-> cur, version |-> ver, current_path |-> path, fs |-> entries,
     target_exists |-> exists]

\* download_data(link): fetch is how the request and the archive turn out,
\* "ok", "neterr" (the request raises), "status" (a non-2xx answer) or
\* "badzip" (the archive does not unpack); the result is the outcome and the
\* entries of the storage directory afterwards
download_data(entries, exists, v, fetch) ==
    LET failed(es) == [out |-> Ok(EmptyTuple, <<"error">>, 0), fs |-> es]
        written == entries \cup {ZipName(v)}
    IN IF fetch = "neterr" THEN failed(entries)
       ELSE IF fetch = "status"
       THEN IF ZipName(v) \in entries
            THEN [out |-> Ok(None, <<>>, 0), fs |-> entries \cup {DirName(v)}]
            ELSE failed(entries)
       ELSE IF ~exists THEN failed(entries)
       ELSE IF fetch = "badzip" THEN failed(written)
       ELSE [out |-> Ok(None, <<>>, 0), fs |-> written \cup {DirName(v)}]

\* lines 734-736, after the download
update_bookkeeping(st, entries, new_version) ==
    IF NonArchives(entries) = {}
    THEN [out |-> Raise("ValueError", <<>>, 0), st |-> [st EXCEPT !.fs = entries]]
    ELSE [out |-> Ok(None, <<>>, 0),
          st |-> [st EXCEPT !.fs = entries,
                            !.current = StrMax(NonArchives(entries)),
                            !.version = new_version,
                            !.current_path =
                                RelativePath(Strip(ZipName(new_version), Range(DotZip)))]]

\* get_new_database with line 732 calling download_data by its name
get_new_database_download(st, advertised, online, fetch) ==
    IF ~online THEN [out |-> Raise("ConnectionError", <<>>, 0), st |-> st]
    ELSE IF st.version >= advertised
    THEN [out |-> Ok(EmptyTuple, <<"database up to date">>, 0), st |-> st]
    ELSE update_bookkeeping(st, download_data(st.fs, st.target_exists, advertised,
                                              fetch).fs, advertised)

\* get_new_database stopping only when the local version is strictly greater
\* than the advertised one
get_new_database_strict(st, advertised, online, fetch) ==
    IF ~online THEN [out |-> Raise("ConnectionError", <<>>, 0), st |-> st]
    ELSE IF st.version > advertised
    THEN [out |-> Ok(EmptyTuple, <<"database up to date">>, 0), st |-> st]
    ELSE IF "donwload_data" \notin Methods
    THEN [out |-> Raise("AttributeError", <<>>, 0), st |-> st]
    ELSE LET d == download_data(st.fs, st.target_exists, advertised, fetch)
         IN update_bookkeeping(st, d.fs, advertised)

\* get_new_database: online is whether the release page can be fetched,
\* advertised the version its first heading names
get_new_database(st, advertised, online, fetch) ==
    IF ~online THEN [out |-> Raise("ConnectionError", <<>>, 0), st |-> st]
    ELSE IF st.version >= advertised
    THEN [out |-> Ok(EmptyTuple, <<"database up to date">>, 0), st |-> st]
    ELSE IF "donwload_data" \notin Methods
    THEN [out |-> Raise("AttributeError", <<>>, 0), st |-> st]
    ELSE LET d == download_data(st.fs, st.target_exists, advertised, fetch)
         IN update_bookkeeping(st, d.fs, advertised)

\* ONETHandler(update) with the update left to the caller's flag in every
\* branch
onet_init_as_requested(st, update, advertised, online, fetch) ==
    LET names == NonArchives(st.fs)
        cur == StrMax(names)
        v == parse_version(cur)
        s1 == IF ~st.target_exists THEN [st EXCEPT !.target_exists = TRUE]
              ELSE IF names # {}
              THEN [st EXCEPT !.current = cur, !.current_path = TargetPath(cur),
                              !.version = IF v.kind = "ok" THEN v.val ELSE @]
              ELSE st
    IN IF st.target_exists /\ names # {} /\ v.kind = "raise"
       THEN [out |-> v, st |-> s1]
       ELSE IF update THEN get_new_database(s1, advertised, online, fetch)
       ELSE [out |-> Ok(None, <<>>, 0), st |-> s1]

\* ONETHandler(update)
onet_init(st, update, advertised, online, fetch) ==
    LET names == NonArchives(st.fs)
        cur == StrMax(names)
        v == parse_version(cur)
        s1 == IF ~st.target_exists THEN [st EXCEPT !.target_exists = TRUE]
              ELSE IF names # {}
              THEN [st EXCEPT !.current = cur, !.current_path = TargetPath(cur),
                              !.version = IF v.kind = "ok" THEN v.val ELSE @]
              ELSE st
        upd == update \/ ~st.target_exists \/ names = {}
    IN IF st.target_exists /\ names # {} /\ v.kind = "raise"
       THEN [out |-> v, st |-> s1]
       ELSE IF upd THEN get_new_database(s1, advertised, online, fetch)
       ELSE [out |-> Ok(None, <<>>, 0), st |-> s1]

\* the content of the tab-delimited files of a release
FileColumns == <<"O*NET-SOC Code", "Element ID", "Element Name", "Scale ID", "Data Value">>

FileRow(soc, id, name, scale, value) ==
    ("O*NET-SOC Code" :> soc) @@ ("Element ID" :> id) @@ ("Element Name" :> name)
    @@ ("Scale ID" :> scale) @@ ("Data Value" :> value)

FileRows == <<FileRow("11-1011.00", "2.A.1.a", "Reading", "IM", 4),
              FileRow("11-1011.00", "2.A.1.a", "Reading", "LV", 5),
              FileRow("13-2011.00", "2.A.1.a", "Reading", "IM", 3),
              FileRow("13-2011.00", "2.A.1.a", "Reading", "LV", 2)>>

\* whether pd.read_csv finds a file under the path
Readable(path, entries) ==
    /\ ~IsNone(path)
    /\ path.dir = "target"
    /\ path.name \in NonArchives(entries)

get_table(st, table, soc) ==
    IF table \notin DOMAIN index
    THEN Ok(None, <<"error", "not valid table name">>, 0)
    ELSE IF ~Readable(st.current_path, st.fs)
    THEN Raise("FileNotFoundError", <<>>, 0)
    ELSE Ok(DF(FileColumns,
               IF soc = <<>> THEN FileRows
               ELSE SelectSeq(FileRows, LAMBDA r : r["O*NET-SOC Code"] \in Range(soc))),
            <<>>, 0)

(* ONETHandler.quant_view and qual_view.  The files of a release list    *)
(* their rows in the order of their keys, so the sorted keys of a groupby   *)
(* or a pivot are the keys in the order of their first row.                 *)

KeyOf(r, cols) == [i \in 1..Len(cols) |-> r[cols[i]]]

\* the distinct keys of the rows, in the order of their first row
DistinctKeys(rows, cols) ==
    LET firsts == SelectSeq([i \in 1..Len(rows) |-> i],
                            LAMBDA i : \A j \in 1..(i - 1) :
                                          KeyOf(rows[j], cols) # KeyOf(rows[i], cols))
    IN [k \in 1..Len(firsts) |-> KeyOf(rows[firsts[k]], cols)]

RECURSIVE ProdSeq(_)
ProdSeq(s) == IF s = <<>> THEN 1 ELSE Head(s) * ProdSeq(Tail(s))

QuantKeys == <<"O*NET-SOC Code", "Element ID", "Element Name">>

\* pd.DataFrame(quant.groupby([...])['Data Value'].prod()).reset_index()
groupby_prod(df) ==
    LET keys == DistinctKeys(df.rows, QuantKeys)
        cols == Append(QuantKeys, "Data Value")
        Values(k) == SelectSeq(df.rows, LAMBDA r : KeyOf(r, QuantKeys) = k)
    IN DF(cols, [i \in 1..Len(keys) |->
                   [c \in Range(cols) |->
                       IF c = "Data Value"
                       THEN ProdSeq([j \in 1..Len(Values(keys[i])) |->
                                        Values(keys[i])[j]["Data Value"]])
                       ELSE keys[i][CHOOSE n \in 1..3 : QuantKeys[n] = c]]])

\* a cell of a pivoted table that holds a value; an empty cell holds NaN
Cell(v) == [t |-> "cell", v |-> v]

\* df.pivot(index, columns, values): one row per value of index, one column
\* per value of columns; the index is carried as the first column
pivot(df, idx, columns, values) ==
    IF {idx, columns, values} \ Range(df.cols) # {} THEN Raise("KeyError", <<>>, 0)
    ELSE IF \E i, j \in 1..Len(df.rows) :
               i < j /\ KeyOf(df.rows[i], <<idx, columns>>) = KeyOf(df.rows[j], <<idx, columns>>)
    THEN Raise("ValueError", <<>>, 0)
    ELSE LET is == DistinctKeys(df.rows, <<idx>>)
             cs == DistinctKeys(df.rows, <<columns>>)
             cols == <<idx>> \o [k \in 1..Len(cs) |-> cs[k][1]]
             At(i, c) == {r \in Range(df.rows) : r[idx] = i /\ r[columns] = c}
         IN Ok(DF(cols, [k \in 1..Len(is) |->
                           [c \in Range(cols) |->
                               IF c = idx THEN is[k][1]
                               ELSE IF At(is[k][1], c) = {} THEN NaN
                               ELSE Cell((CHOOSE r \in At(is[k][1], c) : TRUE)[values])]]),
               <<>>, 0)

\* lines 812-832: quant is the outcome of get_table
quant_view_body(quant, scale, how) ==
    IF quant.kind = "raise" THEN quant
    ELSE IF scale # "product" /\ scale \notin {"IM", "LV"}
    THEN Ok(None, Append(quant.msgs, "not a valid scale"), 0)
    ELSE IF IsNone(quant.val)
    THEN Raise(IF scale # "product" THEN "TypeError" ELSE "AttributeError", quant.msgs, 0)
    ELSE LET q == IF scale # "product"
                  THEN DF(quant.val.cols,
                          SelectSeq(quant.val.rows, LAMBDA r : r["Scale ID"] = scale))
                  ELSE groupby_prod(quant.val)
             long == <<"O*NET-SOC Code", "Element ID", "Element Name", "Data Value">>
         IN IF how = "long"
            THEN Ok(DF(long, [i \in 1..Len(q.rows) |-> Project(q.rows[i], long)]), <<>>, 0)
            ELSE IF how = "wide_clean"
            THEN pivot(q, "O*NET-SOC Code", "Element Name", "Data Value")
            ELSE IF how = "wide_raw"
            THEN pivot(q, "O*NET-SOC Code", "Element ID", "Data Value")
            ELSE Ok(None, <<"not a valid how">>, 0)

\* except Exception: traceback.print_exc(); print(...); return(None)
quant_view_except(b, table) ==
    IF b.kind = "raise" THEN Ok(None, b.msgs \o <<"traceback", "not viable for quant_view">>, 0)
    ELSE b

quant_view(st, table, soc, scale, how) ==
    quant_view_except(quant_view_body(get_table(st, table, soc), scale, how), table)

\* qual['bool'] = True
with_bool(df) ==
    DF(Append(df.cols, "bool"),
       [i \in 1..Len(df.rows) |->
           [c \in Range(df.cols) \cup {"bool"} |->
               IF c = "bool" THEN TRUE ELSE df.rows[i][c]]])

\* .reset_index().fillna(False) on the outcome of a pivot
fillna_false(p) ==
    IF p.kind = "raise" THEN p
    ELSE Ok(DF(p.val.cols,
               [i \in 1..Len(p.val.rows) |->
                   [c \in Range(p.val.cols) |->
                       IF c = p.val.cols[1] THEN p.val.rows[i][c]
                       ELSE IF p.val.rows[i][c] = NaN THEN Cell(FALSE)
                       ELSE p.val.rows[i][c]]]), <<>>, 0)

\* lines 862-875: qual is the outcome of get_table
qual_view_body(qual, how, pivot_col) ==
    IF qual.kind = "raise" THEN qual
    ELSE IF how = "long" THEN qual
    ELSE IF how = "wide"
    THEN IF IsNone(pivot_col)
         THEN Ok(None, Append(qual.msgs, "select categorical column"), 0)
         ELSE IF IsNone(qual.val) THEN Raise("TypeError", qual.msgs, 0)
         ELSE fillna_false(pivot(with_bool(qual.val), "O*NET-SOC Code", pivot_col.v, "bool"))
    ELSE Ok(None, Append(qual.msgs, "not a valid how"), 0)

qual_view(st, table, soc, how, pivot_col) ==
    qual_view_body(get_table(st, table, soc), how, pivot_col)

(* State machine of the O*NET handler *)

Releases == {90, 253, 261, 262}

Fetches == {"ok", "neterr", "status", "badzip"}

StorageStates ==
    {[exists |-> FALSE, fs |-> {}]}
    \cup {[exists |-> TRUE, fs |-> es] :
            es \in {{}, {ZipName(253)}, {DirName(253)}, {DirName(253), ZipName(253)},
                    {DirName(90), DirName(253)}, {DirName(261), ZipName(261)}}}

InitONET ==
    /\ IPEDSInitial /\ RosettaInitial /\ CallInitial
    /\ \E s \in StorageStates : fs = s.fs /\ target_exists = s.exists
    /\ feed \in {253, 261}
    /\ current = None
    /\ version = 0
    /\ current_path = None
    /\ onet = "none"

Current == OnetState(current, version, current_path, fs, target_exists)

Becomes(st) ==
    /\ current' = st.current
    /\ version' = st.version
    /\ current_path' = st.current_path
    /\ fs' = st.fs
    /\ target_exists' = st.target_exists

\* a new handler starts from the class attributes
ONETConstruct ==
    \E update \in BOOLEAN, online \in BOOLEAN, fetch \in Fetches :
        LET fresh == OnetState(None, 0, None, fs, target_exists)
            r == onet_init(fresh, update, feed, online, fetch)
        IN /\ call = Idle
           /\ call' = [op |-> "ONETHandler", update |-> update, online |-> online,
                       fetch |-> fetch, before |-> fresh]
           /\ ret' = r.out
           /\ Becomes(r.st)
           /\ onet' = IF r.out.kind = "ok" THEN "live" ELSE "none"
           /\ UNCHANGED <<ipedsVars, stone, feed>>

CallGetNewDatabase ==
    \E online \in BOOLEAN, fetch \in Fetches :
        LET r == get_new_database(Current, feed, online, fetch)
        IN /\ call = Idle
           /\ onet = "live"
           /\ call' = [op |-> "get_new_database", online |-> online, fetch |-> fetch,
                       before |-> Current, advertised |-> feed]
           /\ ret' = r.out
           /\ Becomes(r.st)
           /\ UNCHANGED <<ipedsVars, stone, feed, onet>>

CallDownloadData ==
    \E v \in Releases, fetch \in Fetches :
        LET r == download_data(fs, target_exists, v, fetch)
        IN /\ call = Idle
           /\ onet = "live"
           /\ call' = [op |-> "download_data", link |-> ZipName(v), fetch |-> fetch]
           /\ ret' = r.out
           /\ fs' = r.fs
           /\ UNCHANGED <<ipedsVars, stone, feed, onet, current, version, current_path,
                          target_exists>>

CallGetTable ==
    \E table \in {"sk", "occ", "nope"}, soc \in {<<>>, <<"11-1011.00">>} :
        /\ call = Idle
        /\ onet = "live"
        /\ call' = [op |-> "get_table", table |-> table, soc |-> soc]
        /\ ret' = get_table(Current, table, soc)
        /\ UNCHANGED <<ipedsVars, stone, onetVars>>

QuantViewArgs ==
    [table : {"sk", "nope"}, soc : {<<>>, <<"11-1011.00">>},
     scale : {"product", "IM", "bogus"},
     how : {"long", "wide_clean", "wide_raw", "bogus"}]

CallQuantView ==
    /\ call = Idle
    /\ onet = "live"
    /\ \E a \in QuantViewArgs :
          /\ call' = [op |-> "quant_view", a |-> a]
          /\ ret' = quant_view(Current, a.table, a.soc, a.scale, a.how)
    /\ UNCHANGED <<ipedsVars, stone, onetVars>>

QualViewArgs ==
    [table : {"sk", "nope"}, soc : {<<>>, <<"11-1011.00">>},
     how : {"long", "wide", "bogus"},
     pivot_col : {None, PyStr("Element Name"), PyStr("Scale ID"), PyStr("nope")}]

CallQualView ==
    /\ call = Idle
    /\ onet = "live"
    /\ \E a \in QualViewArgs :
          /\ call' = [op |-> "qual_view", a |-> a]
          /\ ret' = qual_view(Current, a.table, a.soc, a.how, a.pivot_col)
    /\ UNCHANGED <<ipedsVars, stone, onetVars>>

\* the O*NET center publishes a newer release
Release ==
    \E v \in Releases :
        /\ call = Idle
        /\ v > feed
        /\ feed' = v
        /\ UNCHANGED <<ipedsVars, stone, fs, target_exists, current, version,
                       current_path, onet, call, ret>>

NextONET ==
    \/ ONETConstruct
    \/ CallGetNewDatabase
    \/ CallDownloadData
    \/ CallGetTable
    \/ CallQuantView
    \/ CallQualView
    \/ Release
    \/ Discard

SpecONET == InitONET /\ [][NextONET]_vars

\* C10: when the feed advertises a version newer than the local one and the
\* download succeeds, get_new_database fetches and unpacks the archive and
\* updates the bookkeeping: version is the new version, current the greatest
\* non-archive entry of the storage directory, and current_path the path of
\* that directory under the storage root, which get_table then reads.
C10_UpdateAdvancesBookkeeping ==
    (/\ call.op = "get_new_database"
     /\ call.online
     /\ call.fetch = "ok"
     /\ call.before.version < call.advertised)
    => /\ ret.kind = "ok"
       /\ version = call.advertised
       /\ DirName(call.advertised) \in fs
       /\ current = StrMax(NonArchives(fs))
       /\ current_path = TargetPath(current)
       /\ get_table(Current, "sk", <<>>).kind = "ok"

\* the handler's record of the local release
Bookkeeping == <<current, version, current_path>>

\* the fetch of the archive fails: the request raises, is answered with a
\* non-2xx status, or the archive does not unpack
FetchFails(c) == c.fetch \in {"neterr", "status", "badzip"}

SchoolLevelRows == Range(school_query(db, conn, metadata, varnames,
                                      ProgramsArgs(call.a)).val.rows)

\* the school-level rows of the group a row of the result stands for
GroupOf(r) ==
    {w \in SchoolLevelRows :
        /\ w.CIPCODE = r.CIPCODE
        /\ Absent(call.a.keep_geography)
           \/ w[call.a.keep_geography.v] = r[call.a.keep_geography.v]}

\* C12: programs groups the school-level rows by CIPCODE (and by
\* keep_geography when set), and PROG_COUNT of each group is the number of
\* distinct institutions (UNITID) in the group, also when an institution has
\* several award rows for one classification code.
C12_ProgCountIsDistinctInstitutions ==
    (call.op = "programs" /\ ReturnedTable)
    => \A i \in 1..Len(ret.val.rows) :
          ret.val.rows[i].PROG_COUNT
              = Cardinality({w.UNITID : w \in GroupOf(ret.val.rows[i])})

\* C13: for a table key that is not in index, get_table reports and returns
\* None, and quant_view and qual_view built on it return None as well, for
\* every scale and layout (how='wide' with a pivot_col included); no
\* exception leaves the call.
C13_UnknownTableReturnsNone ==
    (\/ call.op = "get_table" /\ call.table \notin DOMAIN index
     \/ call.op \in {"quant_view", "qual_view"} /\ call.a.table \notin DOMAIN index)
    => ReturnedNone /\ ret.msgs # <<>>

\* the geography columns the message of line 351 names
SupportedGeography == {"FIPS", "COUNTYCD", "ZIP"}

\* C14: school_query with a keep_geography that is no supported geography
\* column reports it and returns None; and whenever keep_geography is set,
\* with or without a geography filter, the call ends with a table carrying
\* that column or with None, never with an exception.  (Stated for an open
\* connection.)
C14_KeepGeographyNeverRaises ==
    (/\ call.op = "school_query"
     /\ conn = "open"
     /\ ~Absent(call.a.keep_geography))
    => /\ ret.kind = "ok"
       /\ \/ IsNone(ret.val)
          \/ ret.val.t = "df" /\ call.a.keep_geography.v \in Range(ret.val.cols)
       /\ call.a.keep_geography.v \notin SupportedGeography
          => IsNone(ret.val) /\ ret.msgs # <<>>

\* the outcome of the operation op for the arguments a
ResultOf(op, a) ==
    IF op = "school_query" THEN Outcome(school_query(db, conn, metadata, varnames, a))
    ELSE IF op = "awards" THEN awards(db, conn, metadata, varnames, a)
    ELSE IF op = "programs" THEN programs(db, conn, metadata, varnames, a)
    ELSE schools(db, conn, metadata, varnames, a)

\* C15: with a geography filter, every UNITID in the rows school_query
\* returns is one get_unitid resolves for the filter, and the result of
\* school_query, awards, programs and schools does not depend on the unitid
\* list the caller passed: the WHERE clause is built from the resolved ids.
C15_ResolvedIdsOverrideUnitid ==
    (/\ call.op \in {"school_query"} \cup Aggregations
     /\ HasGeo(call.a)
     /\ ret.kind = "ok"
     /\ ~IsNone(ret.val))
    => /\ call.op = "school_query"
          => \A i \in 1..Len(ret.val.rows) :
                ret.val.rows[i].UNITID \in ResolvedIds(call.a)
       /\ ret = ResultOf(call.op, [call.a EXCEPT !.unitid = <<>>])

C15_Witness ==
    /\ call.op = "school_query"
    /\ IsInt(call.a.county_fips, 21)
    /\ call.a.unitid = <<1>>
    /\ ReturnedTable
    /\ Len(ret.val.rows) = 1
    /\ ret.val.rows[1].UNITID = 3
    /\ \E i \in 1..Len(db.C2019_A) : db.C2019_A[i].UNITID = 1

(* clean applied to its own output.  The handler holds metadata and       *)
(* varnames; the caller passes a table of the relation "T" with the        *)
(* variables A and B through clean, and the result through clean again     *)
(* with the same flags.                                                    *)

MaxCleanRows == 1

CleanValues == {"1", "2", "x"}

CleanTables ==
    {DF(<<"A", "B">>, rows) :
        rows \in UNION {[1..n -> [A : CleanValues, B : CleanValues]] : n \in 0..MaxCleanRows}}

\* self.metadata: None, or variable -> code -> label
MetaDicts ==
    {None,
     PyDict([v \in {"A"} |-> [c \in {"1"} |-> "x"]]),
     PyDict([v \in {"A"} |-> [c \in {"1", "2"} |-> IF c = "1" THEN "2" ELSE "x"]]),
     PyDict([v \in {"A", "B"} |-> IF v = "A" THEN [c \in {"1"} |-> "x"]
                                  ELSE [c \in {"x"} |-> "1"]]),
     PyDict([v \in {"A", "Title A"} |-> IF v = "A" THEN [c \in {"1"} |-> "x"]
                                        ELSE [c \in {"x"} |-> "1"]])}

\* self.varnames: None, or table -> variable -> title
TitleDicts ==
    {None,
     PyDict([n \in {"other"} |-> [v \in {"A"} |-> "Title A"]]),
     PyDict([n \in {"T"} |-> [v \in {"A"} |-> "Title A"]]),
     PyDict([n \in {"T"} |-> [v \in {"A", "B"} |-> IF v = "A" THEN "Title A" ELSE "Title B"]]),
     PyDict([n \in {"T"} |-> [v \in {"A", "B"} |-> IF v = "A" THEN "B" ELSE "C"]])}

InitClean ==
    /\ db = NoDatabase
    /\ conn = "none"
    /\ metadata \in MetaDicts
    /\ varnames \in TitleDicts
    /\ RosettaInitial /\ ONETInitial /\ CallInitial

CallClean ==
    /\ call = Idle
    /\ \E df \in CleanTables, replace \in BOOLEAN, rename \in BOOLEAN, rnr \in BOOLEAN :
          /\ call' = [op |-> "clean", df |-> df, replace |-> replace, rename |-> rename,
                      rnr |-> rnr]
          /\ ret' = clean(metadata, varnames, df, "T", replace, rename, rnr)
    /\ UNCHANGED <<ipedsVars, stone, onetVars>>

\* the table clean returned goes through clean once more
CallCleanAgain ==
    /\ call.op = "clean"
    /\ ret.kind = "ok"
    /\ call' = [op |-> "clean_again", first |-> ret.val, replace |-> call.replace,
                rename |-> call.rename, rnr |-> call.rnr]
    /\ ret' = clean(metadata, varnames, ret.val, "T", call.replace, call.rename, call.rnr)
    /\ UNCHANGED <<ipedsVars, stone, onetVars>>

NextClean ==
    \/ CallClean
    \/ CallCleanAgain
    \/ Discard

SpecClean == InitClean /\ [][NextClean]_vars

\* C16 as stated: for any table and any metadata and variable-title
\* dictionaries, clean with replace and/or rename applied to its own output
\* leaves the table, values and column names, unchanged.
C16_CleanIdempotent ==
    (call.op = "clean_again" /\ (call.replace \/ call.rename))
    => ret.kind = "ok" /\ ret.val = call.first

\* no label of a variable is also a code of that variable
LabelsAreNotCodes ==
    IsNone(metadata)
    \/ \A v \in DOMAIN metadata.d :
          \A c \in DOMAIN metadata.d[v] : metadata.d[v][c] \notin DOMAIN metadata.d[v]

\* no title of the relation's variables is itself a variable name, of the
\* relation or of the metadata dictionary
TitlesAreNotVariables ==
    IsNone(varnames) \/ "T" \notin DOMAIN varnames.d
    \/ \A v \in DOMAIN varnames.d["T"] :
          /\ varnames.d["T"][v] \notin DOMAIN varnames.d["T"]
          /\ IsNone(metadata) \/ varnames.d["T"][v] \notin DOMAIN metadata.d

\* C16 amended: when no label of a variable is also a code of that variable
\* and no title is also a variable name, clean with replace and/or rename
\* applied to its own output leaves the table unchanged.
C16_CleanIdempotentUnchained ==
    (/\ call.op = "clean_again"
     /\ call.replace \/ call.rename
     /\ LabelsAreNotCodes
     /\ TitlesAreNotVariables)
    => ret.kind = "ok" /\ ret.val = call.first

C16_Witness ==
    /\ call.op = "clean_again"
    /\ call.replace /\ call.rename
    /\ LabelsAreNotCodes /\ TitlesAreNotVariables
    /\ ret.kind = "ok"
    /\ ret.val.cols = <<"Title A", "Title B">>
    /\ Len(ret.val.rows) = 1
    /\ ret.val.rows[1]["Title A"] = "x"

\* the outcome and the handler after exactly one get_new_database on st,
\* under the conditions of the last call
OneUpdateFrom(st) == get_new_database(st, feed, call.online, call.fetch)

\* the state is what one update from st leaves, and the caller sees its
\* exception or its messages
UpdatedOnceFrom(st) ==
    /\ Current = OneUpdateFrom(st).st
    /\ ret.kind = OneUpdateFrom(st).out.kind
    /\ ret.msgs = OneUpdateFrom(st).out.msgs
    /\ ret.kind = "raise" => ret.val = OneUpdateFrom(st).out.val

\* the attributes after the newest local release was picked
PickedLocal(st) ==
    [st EXCEPT !.current = StrMax(NonArchives(st.fs)),
               !.current_path = TargetPath(StrMax(NonArchives(st.fs))),
               !.version = parse_version(StrMax(NonArchives(st.fs))).val]

\* C17: constructing a handler creates an absent storage root and forces an
\* update; with a non-archive entry present it sets current to the
\* lexicographically greatest one, current_path to target/current and version
\* to the number in that name, and updates only if asked; with a root holding
\* only archives or nothing it forces an update.  The update check runs at
\* most once: the result is that of a single get_new_database, or of none.
C17_InitBranches ==
    call.op = "ONETHandler"
    => /\ ~call.before.target_exists
          => target_exists /\ UpdatedOnceFrom([call.before EXCEPT !.target_exists = TRUE])
       /\ (call.before.target_exists /\ NonArchives(call.before.fs) # {})
          => IF call.update THEN UpdatedOnceFrom(PickedLocal(call.before))
             ELSE Current = PickedLocal(call.before) /\ ret = Ok(None, <<>>, 0)
       /\ (call.before.target_exists /\ NonArchives(call.before.fs) = {})
          => UpdatedOnceFrom(call.before)
       /\ Len(SelectSeq(ret.msgs, LAMBDA x : x = "database up to date")) <= 1

C17_Witness ==
    /\ call.op = "ONETHandler"
    /\ ~call.update
    /\ call.online
    /\ call.before.fs = {ZipName(253)}
    /\ ret.kind = "raise"
    /\ current = None

\* C18: no get_new_database call lowers the handler's version; when the
\* release page is read and the advertised release is not strictly newer than
\* the local version, the call reports "up to date" and returns with current,
\* version, current_path and the storage directory as they were; the version
\* changes only to an advertised version strictly greater than it.
C18_VersionNeverDecreases ==
    [][call'.op = "get_new_database"
       => /\ version' >= version
          /\ (call'.online /\ version >= feed)
             => /\ ret'.kind = "ok"
                /\ ret'.msgs = <<"database up to date">>
                /\ UNCHANGED <<Bookkeeping, fs, target_exists>>
          /\ version' # version => version' = feed /\ feed > version]_vars

C18_Witness ==
    /\ call.op = "get_new_database"
    /\ call.online
    /\ call.before.version = call.advertised
    /\ version = 261
    /\ ret.kind = "ok"
    /\ ret.msgs = <<"database up to date">>

====
